---- MODULE Spec2Model ----
(***************************************************************************)
(* Batch quantification pipeline of the Cell-Quantification-Toolkit:       *)
(* QuantificationWorker (toolkit_lib/quantification.py) driven by the      *)
(* project model (toolkit_lib/project_model.py).                           *)
(*                                                                         *)
(* One background task (doInBackground) walks the selected images and      *)
(* their ROIs; the event-dispatch thread can request cancellation and      *)
(* runs done().  The process can be killed at any step and the project     *)
(* re-opened; checkpoint artifacts can be deleted by hand between runs.    *)
(***************************************************************************)
EXTENDS Integers, Sequences, FiniteSets, TLC

\* ---------------------------------------------------------------- bounds
NumImages == 2          \* images in the project
MaxRois   == 2          \* ROIs in the ROI set of image 1
MaxRuns   == 2          \* pipeline runs started in one behaviour
MaxEvents == 1          \* environment events in one behaviour: failures of a
                        \* step, cancellations, kills, deleted artifacts,
                        \* turns from one worker to another
MaxRecs   == 3          \* raw records handed to the aggregation taken on
                        \* its own
MaxOps    == 4          \* project opens, runs and deletions applied to the
                        \* results table taken on its own; runs and ROI
                        \* edits applied to the checkpoints of one image
MaxImports == 2         \* imports started on one project
MantissaBits == 20      \* significant bits a floating-point sum keeps (the
                        \* program's doubles keep 53)
MaxParticles == 2       \* particles in a label raster analysed on its own

\* ------------------------------------------------------ program constants
MinParticleSize == 20   \* ParticleAnalyzer(options, measurements, rt, 20, inf, ...)

Images == 1..NumImages

None == "none"

\* One ROI of a ROI set: its name and its "comment" property (the bregma
\* value, here in thousandths) and the area of its geometry.
Roi(n, b) == [name |-> <<n>>, bregma |-> b, area |-> 100]

\* ROI sets the project can hold.  Image 1 has MaxRois ROIs, the first two
\* sharing a name; image 2 has either no ROI file or one ROI; every other
\* image has one ROI.
RoiSetOfImage1 ==
  [i \in 1..MaxRois |-> IF i <= 2 THEN Roi("a", 1000 * i) ELSE Roi("b", 500)]

RoiSetChoices(img) ==
  IF img = 1 THEN {RoiSetOfImage1}
  ELSE IF img = 2 THEN {<<>>, <<Roi("b", -500)>>}
  ELSE {<<Roi("b", -500)>>}

RoiNames == {<<"a">>, <<"b">>}

\* Decimal digits of a natural number, as str.format writes it
RECURSIVE Digits(_)
Digits(n) ==
  LET d == <<"0", "1", "2", "3", "4", "5", "6", "7", "8", "9">>[(n % 10) + 1]
  IN IF n < 10 THEN <<d>> ELSE Append(Digits(n \div 10), d)

\* os.path.splitext(f)[0]: f up to its last dot, leading dots apart
SplitExtRoot(f) ==
  LET dots == {i \in 1..Len(f) : f[i] = "." /\ \E j \in 1..(i - 1) : f[j] # "."}
  IN IF dots = {} THEN f
     ELSE SubSeq(f, 1, (CHOOSE i \in dots : \A j \in dots : j <= i) - 1)

\* "{}_{}_{}".format(os.path.splitext(filename)[0], roi.getName(), i):
\* the name the crop and both checkpoints of an ROI are derived from
FormatBaseName(filename, roiName, i) ==
  SplitExtRoot(filename) \o <<"_">> \o roiName \o <<"_">> \o Digits(i)

\* File name of an image of the project
FileName(img) == Digits(img) \o <<".", "t", "i", "f">>

\* (image, 1-based ROI position) pairs, and the base names a run can build
Pairs == Images \X (1..MaxRois)
BaseNames ==
  [img \in Images, n \in RoiNames, i \in 0..(MaxRois - 1) |->
     FormatBaseName(FileName(img), n, i)]
Paths == {BaseNames[a] : a \in DOMAIN BaseNames}

VARIABLES
  roiFile,             \* ROI_Files/<base>_ROIs.zip per image (<<>> = no file)
  status,              \* ProjectImage.status, in memory
  ledger,              \* Image_Status_DB.csv
  pixelArt,            \* <base>_probabilities.tif per key (None = no file)
  objectArt,           \* <base>_objects.tif per key (None = no file)
  cropFile,            \* temp/<base>_cropped.tif files present
  outlineFile,         \* Final_Cell_Selections/<base>_Outlines.zip per image
  table,               \* Results_DB.csv data rows
  runNo,               \* number of runs started
  selected,            \* settings['images']
  pc,                  \* position of doInBackground
  cancelled,           \* SwingWorker.isCancelled()
  doneRan,             \* done() has run for this worker
  dialog,              \* title of the message dialog done() has shown (None =
                       \* no dialog)
  imgCur,              \* image_obj of the image loop (0 before the loop)
  roiIdx,              \* 1-based position in all_rois_for_image (code's i + 1)
  total,               \* total_rois_to_process
  roi_counter,         \* roi_counter
  temp_cropped_path,   \* temp_cropped_path of the ROI iteration (None = not set)
  curImage,            \* identity of ImageJ's current image (IJ.getImage())
  pixel_imp,           \* identity held by pixel_imp in _run_ilastik_classification
  result_imp,          \* content of the raster handed to _analyze_results
  branch,              \* resume branch taken by the current classification (0 = none)
  all_results,         \* self.all_results
  all_image_outlines,  \* number of outlines in all_image_outlines
  \* ---- history variables (observers, never read by the code)
  preStatus,           \* status of every image when the run was started
  reached,             \* images whose loop iteration got past the cancel check
  imgFault,            \* per image: "none", "open" (openImage failed),
                       \* "load" (ROI set raised), "save" (outline save raised)
  outcome,             \* per (image, roi): "none", "ok", "failed"
  entryPix, entryObj,  \* artifact existence when classification was entered
  cPix, cObj,          \* classifier calls made by the current classification
  noNew,               \* a stage of the current classification produced no new image
  extCalls,            \* classifier calls made by the current run
  recsAtCancel,        \* all_results when cancellation was requested
  tableStart,          \* Len(table) when the run was started
  prev,                \* summary of the previous finished run
  deleted,             \* an artifact was deleted by hand since the last run
  midKill,             \* keys whose classification was killed between the stages
  resumed,             \* the current classification is for a key in midKill
  events,              \* environment events so far
  \* ---- a second worker, and the pure functions taken on their own
  other,               \* state of a worker other than the one the variables
                       \* above describe (SwingWorker runs up to 10 at once)
  fnArg, fnRes         \* argument and result of a function applied on its own

runVars == <<roiFile, status, ledger, pixelArt, objectArt, cropFile,
             outlineFile, table, runNo, selected, pc, cancelled, doneRan,
             dialog,
             imgCur, roiIdx, total, roi_counter, temp_cropped_path, curImage,
             pixel_imp,
             result_imp, branch, all_results, all_image_outlines, preStatus,
             reached, imgFault, outcome, entryPix, entryObj, cPix, cObj, noNew,
             extCalls, recsAtCancel, tableStart, prev, deleted, midKill,
             resumed, events, other>>

vars == <<runVars, fnArg, fnRes>>

cfgVars  == <<roiFile, runNo, selected, preStatus, tableStart, prev, deleted>>
edtVars  == <<cancelled, doneRan, dialog, recsAtCancel>>
artVars  == <<pixelArt, objectArt, midKill>>
loopVars == <<imgCur, roiIdx, total, roi_counter, all_image_outlines>>
pureVars == <<fnArg, fnRes>>
auxVars  == <<other, pureVars>>
clsVars  == <<curImage, pixel_imp, result_imp, branch, entryPix, entryObj,
              cPix, cObj, noNew, resumed, temp_cropped_path>>

\* ------------------------------------------------------------- helpers

has_roi(img) == roiFile[img] # <<>>

\* base_name = "{}_{}_{}".format(splitext(filename)[0], roi.getName(), i)
BaseName(img, idx) == BaseNames[img, roiFile[img][idx].name, idx - 1]

\* prob_map_path of the ROI being processed
Key == BaseName(imgCur, roiIdx)

Min(S) == CHOOSE x \in S : \A y \in S : x <= y

RECURSIVE SumLen(_)
SumLen(S) ==
  IF S = {} THEN 0
  ELSE LET x == Min(S) IN Len(roiFile[x]) + SumLen(S \ {x})

NoPrev == [sel |-> {}, clean |-> FALSE, rows |-> <<>>, nodelete |-> FALSE, any |-> FALSE]

NoOutcome == [p \in Pairs |-> "none"]
NoFault   == [img \in Images |-> "none"]

\* A worker that has not been executed
IdleWorker ==
  [selected |-> {}, pc |-> "idle", cancelled |-> FALSE, doneRan |-> FALSE,
   dialog |-> None,
   imgCur |-> 0, roiIdx |-> 0, total |-> 0, roi_counter |-> 0,
   temp_cropped_path |-> None, pixel_imp |-> None, result_imp |-> None, branch |-> 0,
   all_results |-> <<>>, all_image_outlines |-> 0,
   preStatus |-> [img \in Images |-> "In Progress"], reached |-> {}, imgFault |-> NoFault,
   outcome |-> NoOutcome, entryPix |-> FALSE, entryObj |-> FALSE,
   cPix |-> 0, cObj |-> 0, noNew |-> FALSE, extCalls |-> 0,
   recsAtCancel |-> <<>>, tableStart |-> 0, resumed |-> FALSE]

InitRun ==
  /\ roiFile \in {f \in [Images -> UNION {RoiSetChoices(i) : i \in Images}] :
                    \A i \in Images : f[i] \in RoiSetChoices(i)}
  /\ status = [img \in Images |-> IF img = 1 THEN "Ready to Quantify" ELSE "In Progress"]
  /\ ledger = status
  /\ pixelArt = [p \in Paths |-> None]
  /\ objectArt = [p \in Paths |-> None]
  /\ cropFile = {}
  /\ outlineFile = [img \in Images |-> 0]
  /\ table = <<>>
  /\ runNo = 0
  /\ selected = {}
  /\ pc = "idle"
  /\ cancelled = FALSE
  /\ doneRan = FALSE
  /\ dialog = None
  /\ imgCur = 0
  /\ roiIdx = 0
  /\ total = 0
  /\ roi_counter = 0
  /\ temp_cropped_path = None
  /\ curImage = None
  /\ pixel_imp = None
  /\ result_imp = None
  /\ branch = 0
  /\ all_results = <<>>
  /\ all_image_outlines = 0
  /\ preStatus = status
  /\ reached = {}
  /\ imgFault = NoFault
  /\ outcome = NoOutcome
  /\ entryPix = FALSE
  /\ entryObj = FALSE
  /\ cPix = 0
  /\ cObj = 0
  /\ noNew = FALSE
  /\ extCalls = 0
  /\ recsAtCancel = <<>>
  /\ tableStart = 0
  /\ prev = NoPrev
  /\ deleted = FALSE
  /\ midKill = {}
  /\ resumed = FALSE
  /\ events = 0
  /\ other = IdleWorker

Init ==
  /\ InitRun
  /\ fnArg = <<>>
  /\ fnRes = <<>>

\* ------------------------------------------------ rasters and analysis

\* Identity of an image ImageJ can hold: the crop window shown by
\* doInBackground ("crop"), the image a pixel-stage call produced ("pix"),
\* the image an object-stage call produced ("obj"), the probability map
\* opened from its file, which is never a window ("pixfile").
\* Content(id) is what IJ.saveAs writes for it.
Content(id) ==
  CASE id = "crop"    -> "crop"
    [] id = "pix"     -> "prob"
    [] id = "obj"     -> "objects"
    [] id = "pixfile" -> pixelArt[Key]
    [] OTHER          -> None

Particle(a, e) == [area |-> a, edge |-> e]

\* Connected components of a raster after masking, thresholding (1..65535)
\* and watershed.  A genuine label raster of image 1 holds idx retained
\* objects, one undersized object and one object on the edge; the label
\* rasters of the other images hold one undersized object only.  A raster
\* that is not a label map (crop) thresholds to one blob covering the region.
Particles(content, img, idx) ==
  IF content = "objects"
    THEN IF img = 1
           THEN [j \in 1..idx |-> Particle(25, FALSE)]
                  \o <<Particle(10, FALSE), Particle(40, TRUE)>>
           ELSE <<Particle(10, FALSE)>>
    ELSE <<Particle(100, TRUE)>>

RECURSIVE SumArea(_)
SumArea(ps) == IF ps = <<>> THEN 0 ELSE Head(ps).area + SumArea(Tail(ps))

\* Variant: particles on the edge are kept
Retained_KeepEdge(p) == p.area >= MinParticleSize

\* ParticleAnalyzer with EXCLUDE_EDGE_PARTICLES and a minimum size: the
\* particles it measures
Retained(p) == p.area >= MinParticleSize /\ ~p.edge

\* _analyze_results: count, total area and outlines of the retained particles
analyze_results(content, img, idx) ==
  LET kept == SelectSeq(Particles(content, img, idx), Retained)
  IN  [count |-> Len(kept), total_area |-> SumArea(kept), outlines |-> Len(kept)]

Abs(x) == IF x < 0 THEN -x ELSE x

\* The power of two by which a magnitude a is scaled to fit the mantissa
RECURSIVE Quantum(_, _)
Quantum(a, q) == IF a < (2 ^ MantissaBits) * q THEN q ELSE Quantum(a, 2 * q)

\* x rounded to the nearest value the mantissa can hold, ties to even
Round(x) ==
  LET a == Abs(x)
      q == Quantum(a, 1)
      m == a \div q
      r == a % q
      n == IF 2 * r > q \/ (2 * r = q /\ m % 2 = 1) THEN m + 1 ELSE m
  IN  (IF x < 0 THEN -1 ELSE 1) * n * q

\* x + y on finite floating-point values: the exact sum, rounded
RAdd(x, y) == Round(x + y)

\* Floating-point values: a finite number (here in thousandths), an
\* infinity (v is its sign) or not-a-number.  float() accepts the texts
\* "inf", "-inf" and "nan" as well as decimal numbers.
Fin(x) == [k |-> "fin", v |-> x]
Inf    == [k |-> "inf", v |-> 1]
NegInf == [k |-> "inf", v |-> -1]
NaN    == [k |-> "nan", v |-> 0]

\* a + b on floating-point values
FAdd(a, b) ==
  IF a.k = "nan" \/ b.k = "nan" THEN NaN
  ELSE IF a.k = "inf" /\ b.k = "inf" THEN (IF a.v = b.v THEN a ELSE NaN)
  ELSE IF a.k = "inf" THEN a
  ELSE IF b.k = "inf" THEN b
  ELSE Fin(RAdd(a.v, b.v))

\* single_roi_result
RoiResult(img, idx, content) ==
  LET a == analyze_results(content, img, idx)
      r == roiFile[img][idx]
  IN  [filename |-> img, roi_name |-> r.name, roi_area |-> r.area,
       bregma_value |-> Fin(r.bregma), cell_count |-> a.count,
       total_cell_area |-> a.total_area]

\* ------------------------------------------------------- aggregation

\* "{:.3f}".format(s / n): a finite quotient is written to the nearest
\* thousandth, ties to even, as sign, whole part and three decimals; an
\* infinite one is written "inf" or "-inf" and not-a-number "nan".
FormatBregma(s, n) ==
  LET a == Abs(s.v)
      q == a \div n
      r == a % n
      m == IF 2 * r > n \/ (2 * r = n /\ q % 2 = 1) THEN q + 1 ELSE q
  IN  IF s.k = "fin"
        THEN [k |-> "fin", neg |-> s.v < 0, whole |-> m \div 1000, frac |-> m % 1000]
        ELSE [k |-> s.k, neg |-> s.v < 0, whole |-> 0, frac |-> 0]

SameKey(g, r) == g.rec.filename = r.filename /\ g.rec.roi_name = r.roi_name

\* Variant: a later record of a group replaces the sums of the group
AggStep_LastWins(acc, r) ==
  IF \E j \in 1..Len(acc) : SameKey(acc[j], r)
    THEN LET j == CHOOSE k \in 1..Len(acc) : SameKey(acc[k], r)
         IN  [acc EXCEPT ![j] =
               [rec |-> r, sum |-> FAdd(@.sum, r.bregma_value),
                count |-> @.count + 1]]
    ELSE Append(acc, [rec |-> r, sum |-> r.bregma_value, count |-> 1])

\* one pass of the grouping loop of done()
AggStep(acc, r) ==
  IF \E j \in 1..Len(acc) : SameKey(acc[j], r)
    THEN LET j == CHOOSE k \in 1..Len(acc) : SameKey(acc[k], r)
         IN  [acc EXCEPT ![j] =
               [rec |-> [@.rec EXCEPT
                           !.roi_area = RAdd(@, r.roi_area),
                           !.cell_count = @ + r.cell_count,
                           !.total_cell_area = RAdd(@, r.total_cell_area)],
                sum |-> FAdd(@.sum, r.bregma_value),
                count |-> @.count + 1]]
    ELSE Append(acc, [rec |-> r, sum |-> r.bregma_value, count |-> 1])

RECURSIVE AggFold(_, _)
AggFold(acc, rs) ==
  IF rs = <<>> THEN acc ELSE AggFold(AggStep(acc, Head(rs)), Tail(rs))

\* final_results_list: one row per (filename, roi_name), bregma averaged
Aggregate(rs) ==
  LET groups == AggFold(<<>>, rs)
  IN  [j \in 1..Len(groups) |->
        [groups[j].rec EXCEPT !.bregma_value =
           FormatBregma(groups[j].sum, groups[j].count)]]

\* ---------------------------------------------------------- run state

\* A step takes a turn the environment decides (a failure, a cancellation,
\* a kill, a deletion), or it does not.
EnvEvent == events < MaxEvents /\ events' = events + 1
NoEvent  == events' = events

RunOver == pc = "returned" /\ doneRan
Active  == pc # "idle" /\ ~RunOver

\* every ROI of every selected image yielded a raw record in this run
RunClean ==
  /\ ~cancelled
  /\ \A img \in selected : \A i \in 1..Len(roiFile[img]) : outcome[<<img, i>>] = "ok"

\* data rows this run appended to the results table
RunRows == SubSeq(table, tableStart + 1, Len(table))

\* Variant: the status file is not rewritten
SyncImageStatusDb_NotWritten(st) == ledger

\* Project._sync_image_status_db: one row per image with its status
SyncImageStatusDb(st) == [img \in Images |-> st[img]]

MarkFailed(st) ==
  [img \in Images |-> IF img \in selected /\ st[img] = "Processing"
                        THEN "Failed" ELSE st[img]]

\* ------------------------------------------- controlling thread (EDT)

\* Rows the user selects in the image table: one image, or all of them
\* ("Select all")
Selections == {{img} : img \in Images} \cup {Images}

\* open_quantification_dialog_action: the dialog returned settings, a worker
\* is created and executed.
StartRun(sel) ==
  /\ UNCHANGED auxVars
  /\ pc = "idle" \/ RunOver
  /\ runNo < MaxRuns
  /\ sel # {}
  /\ runNo' = runNo + 1
  /\ selected' = sel
  /\ pc' = "queued"
  /\ cancelled' = FALSE
  /\ doneRan' = FALSE
  /\ dialog' = None
  /\ imgCur' = 0 /\ roiIdx' = 0 /\ total' = 0 /\ roi_counter' = 0
  /\ temp_cropped_path' = None
  /\ all_image_outlines' = 0
  /\ curImage' = None /\ pixel_imp' = None /\ result_imp' = None /\ branch' = 0
  /\ entryPix' = FALSE /\ entryObj' = FALSE /\ cPix' = 0 /\ cObj' = 0
  /\ noNew' = FALSE /\ resumed' = FALSE
  /\ all_results' = <<>>
  /\ preStatus' = status
  /\ reached' = {}
  /\ imgFault' = NoFault
  /\ outcome' = NoOutcome
  /\ extCalls' = 0
  /\ recsAtCancel' = <<>>
  /\ tableStart' = Len(table)
  /\ prev' = IF RunOver
               THEN [sel |-> selected, clean |-> RunClean, rows |-> RunRows,
                     nodelete |-> ~deleted, any |-> TRUE]
               ELSE NoPrev
  /\ deleted' = FALSE
  /\ UNCHANGED <<roiFile, status, ledger, pixelArt, objectArt, cropFile,
                 outlineFile, table, midKill, events>>

\* SwingWorker.cancel(): the flag doInBackground polls with isCancelled().
\* It has no effect once the task has completed.
Cancel ==
  /\ UNCHANGED auxVars
  /\ pc \notin {"idle", "returned"}
  /\ ~cancelled
  /\ EnvEvent
  /\ cancelled' = TRUE
  /\ recsAtCancel' = all_results
  /\ UNCHANGED <<cfgVars, artVars, loopVars, clsVars, status, ledger, cropFile,
                 outlineFile, table, pc, doneRan, dialog, all_results, reached,
                 imgFault, outcome, extCalls>>

\* Variant: the table is written anew by every run
AppendResults_Replace(tbl, results) ==
  IF results # <<>> THEN Aggregate(results) ELSE tbl

\* Variant: a cancelled run writes nothing
AppendResults_SkipIfCancelled(tbl, results) ==
  IF results # <<>> /\ ~cancelled THEN tbl \o Aggregate(results) ELSE tbl

\* done(), the "if self.all_results:" block: aggregate and append to the table
AppendResults(tbl, results) ==
  IF results # <<>> THEN tbl \o Aggregate(results) ELSE tbl

\* Variant: done() shows the status message whatever happened
DoneMessage_Silent(raised) == "Status"

\* done(): the title of the dialog it shows: the final message of the task,
\* or, when the try block raised, "An error occurred during processing"
DoneMessage(raised) == IF raised THEN "Error" ELSE "Status"

\* done(): runs on the EDT once the task has completed or been cancelled
\* (the future is done as soon as cancel() returns).
Done ==
  /\ UNCHANGED auxVars
  /\ pc # "idle"
  /\ ~doneRan
  /\ pc = "returned" \/ cancelled
  /\ table' = AppendResults(table, all_results)
  \* self.get() raises on a cancelled future: the except clause runs
  /\ status' = IF cancelled THEN MarkFailed(status) ELSE status
  \* finally: self.project.sync_project_db()
  /\ ledger' = SyncImageStatusDb(status')
  /\ doneRan' = TRUE
  /\ dialog' = DoneMessage(cancelled)
  /\ NoEvent
  /\ UNCHANGED <<cfgVars, artVars, loopVars, clsVars, cropFile, outlineFile,
                 pc, cancelled, recsAtCancel, all_results, reached, imgFault,
                 outcome, extCalls>>

\* done() when the aggregation or the write of the table raises (the file
\* cannot be opened, the disk is full): the rows written so far stay, the
\* except clause shows the error and marks the images still "Processing"
\* as "Failed", the finally clause saves the statuses.
DoneWriteFails ==
  /\ UNCHANGED auxVars
  /\ pc # "idle"
  /\ ~doneRan
  /\ pc = "returned" \/ cancelled
  /\ all_results # <<>>
  /\ EnvEvent
  /\ \E k \in 0..(Len(Aggregate(all_results)) - 1) :
       table' = table \o SubSeq(Aggregate(all_results), 1, k)
  /\ status' = MarkFailed(status)
  /\ ledger' = SyncImageStatusDb(status')
  /\ doneRan' = TRUE
  /\ dialog' = DoneMessage(TRUE)
  /\ UNCHANGED <<cfgVars, artVars, loopVars, clsVars, cropFile, outlineFile,
                 pc, cancelled, recsAtCancel, all_results, reached, imgFault,
                 outcome, extCalls>>

\* The handlers Swing runs on the event dispatch thread: the menu action
\* that starts a run, and done()
OnEventThread == Done \/ \E sel \in Selections : StartRun(sel)

\* ---------------------------------------------- environment between runs

\* The process is killed while a run is in progress and the project is
\* opened again: memory is lost, Project._load_project_db reads the statuses
\* back from the ledger, the files stay as they are.
Kill ==
  /\ other' = IdleWorker
  /\ UNCHANGED pureVars
  /\ Active
  /\ EnvEvent
  /\ pc' = "idle"
  /\ status' = ledger
  /\ midKill' = IF pc \in {"objCall", "objGot"} /\ branch = 3
                  THEN midKill \cup {Key} ELSE midKill
  /\ selected' = {}
  /\ cancelled' = FALSE
  /\ doneRan' = FALSE
  /\ dialog' = None
  /\ imgCur' = 0 /\ roiIdx' = 0 /\ total' = 0 /\ roi_counter' = 0
  /\ temp_cropped_path' = None
  /\ all_image_outlines' = 0
  /\ curImage' = None /\ pixel_imp' = None /\ result_imp' = None /\ branch' = 0
  /\ entryPix' = FALSE /\ entryObj' = FALSE /\ cPix' = 0 /\ cObj' = 0
  /\ noNew' = FALSE /\ resumed' = FALSE
  /\ all_results' = <<>>
  /\ preStatus' = ledger
  /\ reached' = {}
  /\ imgFault' = NoFault
  /\ outcome' = NoOutcome
  /\ extCalls' = 0
  /\ recsAtCancel' = <<>>
  /\ tableStart' = Len(table)
  /\ prev' = NoPrev
  /\ deleted' = FALSE
  /\ UNCHANGED <<roiFile, ledger, pixelArt, objectArt, cropFile, outlineFile,
                 table, runNo>>

\* The user deletes a checkpoint artifact by hand while no run is in progress.
DeleteArtifact(k, stage) ==
  /\ UNCHANGED auxVars
  /\ ~Active
  /\ EnvEvent
  /\ IF stage = "pixel"
       THEN /\ pixelArt[k] # None
            /\ pixelArt' = [pixelArt EXCEPT ![k] = None]
            /\ UNCHANGED objectArt
       ELSE /\ objectArt[k] # None
            /\ objectArt' = [objectArt EXCEPT ![k] = None]
            /\ UNCHANGED pixelArt
  /\ midKill' = midKill \ {k}
  /\ deleted' = RunOver
  /\ UNCHANGED <<roiFile, runNo, selected, preStatus, tableStart, prev,
                 edtVars, loopVars, clsVars, status, ledger, cropFile,
                 outlineFile, table, pc, all_results, reached, imgFault,
                 outcome, extCalls>>

\* ------------------------------------------------------ a second worker

\* The state of the worker the variables describe, as one value
WorkerState ==
  [selected |-> selected, pc |-> pc, cancelled |-> cancelled,
   doneRan |-> doneRan, dialog |-> dialog, imgCur |-> imgCur, roiIdx |-> roiIdx,
   total |-> total, roi_counter |-> roi_counter,
   temp_cropped_path |-> temp_cropped_path, pixel_imp |-> pixel_imp,
   result_imp |-> result_imp, branch |-> branch, all_results |-> all_results,
   all_image_outlines |-> all_image_outlines, preStatus |-> preStatus,
   reached |-> reached, imgFault |-> imgFault, outcome |-> outcome,
   entryPix |-> entryPix, entryObj |-> entryObj, cPix |-> cPix, cObj |-> cObj,
   noNew |-> noNew, extCalls |-> extCalls, recsAtCancel |-> recsAtCancel,
   tableStart |-> tableStart, resumed |-> resumed]

\* The progress dialog is not modal and the Quantify button stays enabled
\* while a worker runs, so open_quantification_dialog_action can create and
\* execute another worker; the two background tasks then interleave.  This
\* step turns to the other worker: its state becomes the one the variables
\* describe.  The project, the files and ImageJ's current image are shared.
\* The number of such turns in a behaviour is bounded with the other events.
OtherWorker ==
  /\ pc # "idle" \/ other.pc # "idle"
  /\ EnvEvent
  /\ other' = WorkerState
  /\ selected' = other.selected /\ pc' = other.pc
  /\ cancelled' = other.cancelled /\ doneRan' = other.doneRan
  /\ dialog' = other.dialog
  /\ imgCur' = other.imgCur /\ roiIdx' = other.roiIdx
  /\ total' = other.total /\ roi_counter' = other.roi_counter
  /\ temp_cropped_path' = other.temp_cropped_path
  /\ pixel_imp' = other.pixel_imp /\ result_imp' = other.result_imp
  /\ branch' = other.branch /\ all_results' = other.all_results
  /\ all_image_outlines' = other.all_image_outlines
  /\ preStatus' = other.preStatus /\ reached' = other.reached
  /\ imgFault' = other.imgFault /\ outcome' = other.outcome
  /\ entryPix' = other.entryPix /\ entryObj' = other.entryObj
  /\ cPix' = other.cPix /\ cObj' = other.cObj
  /\ noNew' = other.noNew /\ extCalls' = other.extCalls
  /\ recsAtCancel' = other.recsAtCancel /\ tableStart' = other.tableStart
  /\ resumed' = other.resumed
  /\ UNCHANGED <<roiFile, status, ledger, pixelArt, objectArt, cropFile,
                 outlineFile, table, runNo, curImage, prev, deleted, midKill,
                 pureVars>>

\* --------------------------------------- background task: doInBackground

\* for image_obj in images_to_process: image_obj.status = "Processing".
\* A worker cancelled before its task started never runs doInBackground.
BgMarkProcessing ==
  /\ UNCHANGED auxVars
  /\ pc = "queued"
  /\ NoEvent
  /\ IF cancelled
       THEN pc' = "returned" /\ UNCHANGED status
       ELSE /\ status' = [img \in Images |->
                            IF img \in selected THEN "Processing" ELSE status[img]]
            /\ pc' = "sync"
  /\ UNCHANGED <<cfgVars, edtVars, artVars, loopVars, clsVars, ledger, cropFile,
                 outlineFile, table, all_results, reached, imgFault, outcome,
                 extCalls>>

\* self.project._sync_image_status_db()
BgSyncStatus ==
  /\ UNCHANGED auxVars
  /\ pc = "sync"
  /\ NoEvent
  /\ ledger' = SyncImageStatusDb(status)
  /\ pc' = "count"
  /\ UNCHANGED <<cfgVars, edtVars, artVars, loopVars, clsVars, status, cropFile,
                 outlineFile, table, all_results, reached, imgFault, outcome,
                 extCalls>>

\* total_rois_to_process; "No ROIs to process." when it is 0
BgCountRois ==
  /\ UNCHANGED auxVars
  /\ pc = "count"
  /\ NoEvent
  /\ total' = SumLen({img \in selected : has_roi(img)})
  /\ pc' = IF total' = 0 THEN "returned" ELSE "image"
  /\ UNCHANGED <<cfgVars, edtVars, artVars, clsVars, status, ledger, cropFile,
                 outlineFile, table, all_results, reached, imgFault, outcome,
                 extCalls, imgCur, roiIdx, roi_counter, all_image_outlines>>

\* Variant: the loops do not poll the flag
isCancelled_Ignored == FALSE

\* self.isCancelled(), polled at the top of the image loop and of the ROI loop
isCancelled == cancelled

\* Top of the image loop, up to the start of the ROI loop.
BgImageBegin ==
  /\ UNCHANGED auxVars
  /\ pc = "image"
  /\ LET rest == {j \in selected : j > imgCur} IN
     IF rest = {} \/ isCancelled
       THEN \* loop exhausted, or "if self.isCancelled(): break"
            /\ pc' = "returned"
            /\ NoEvent
            /\ UNCHANGED <<status, imgCur, roiIdx, all_image_outlines, reached,
                           imgFault>>
       ELSE LET img == Min(rest) IN
            /\ imgCur' = img
            /\ reached' = reached \cup {img}
            /\ all_image_outlines' = 0
            /\ IF ~has_roi(img)
                 THEN \* continue
                      /\ pc' = "image"
                      /\ NoEvent
                      /\ UNCHANGED <<status, roiIdx, imgFault>>
                 ELSE \/ \* IJ.openImage returned nothing: log, continue
                         /\ EnvEvent
                         /\ imgFault' = [imgFault EXCEPT ![img] = "open"]
                         /\ pc' = "image"
                         /\ UNCHANGED <<status, roiIdx>>
                      \/ \* loading the ROI set raised: except clause of the image
                         /\ EnvEvent
                         /\ imgFault' = [imgFault EXCEPT ![img] = "load"]
                         /\ status' = [status EXCEPT ![img] = "Failed"]
                         /\ pc' = "image"
                         /\ UNCHANGED roiIdx
                      \/ \* image open, ROIs loaded
                         /\ NoEvent
                         /\ roiIdx' = 1
                         /\ pc' = "roi"
                         /\ UNCHANGED <<status, imgFault>>
  /\ UNCHANGED <<cfgVars, edtVars, artVars, clsVars, ledger, cropFile,
                 outlineFile, table, all_results, outcome, extCalls, total,
                 roi_counter>>

\* Variant: an ROI's exception ends the image's ROI loop
OnRoiException_AbortImage == "imageEnd"

\* except clause of an ROI: log, continue (through the finally clause)
OnRoiException == "cleanup"

\* Top of the ROI loop: cancellation check, then crop and save the crop.
BgRoiBegin ==
  /\ UNCHANGED auxVars
  /\ pc = "roi"
  /\ IF roiIdx > Len(roiFile[imgCur]) \/ isCancelled
       THEN \* ROIs exhausted, or "if self.isCancelled(): break"
            /\ pc' = "imageEnd"
            /\ NoEvent
            /\ UNCHANGED <<cropFile, curImage, outcome, temp_cropped_path>>
       ELSE \/ \* extraction raised before the crop was written
               /\ EnvEvent
               /\ temp_cropped_path' = None
               /\ outcome' = [outcome EXCEPT ![<<imgCur, roiIdx>>] = "failed"]
               /\ pc' = OnRoiException
               /\ UNCHANGED <<cropFile, curImage>>
            \/ \* IJ.saveAs(imp_cropped, ..., temp_cropped_path); imp_cropped.show()
               /\ NoEvent
               /\ temp_cropped_path' = Key
               /\ cropFile' = cropFile \cup {Key}
               /\ curImage' = "crop"
               /\ pc' = "classify"
               /\ UNCHANGED outcome
  /\ UNCHANGED <<cfgVars, edtVars, artVars, loopVars, status, ledger,
                 outlineFile, table, all_results, reached, imgFault, extCalls,
                 pixel_imp, result_imp, branch, entryPix, entryObj, cPix, cObj,
                 noNew, resumed>>

\* ------------------------- background task: _run_ilastik_classification

\* Variants of the resume policy with one of its checks wrong or missing
ClassifyBranch_PixelFirst(objExists, pixExists) ==
  IF pixExists THEN 2 ELSE IF objExists THEN 1 ELSE 3

ClassifyBranch_NoCase2(objExists, pixExists) ==
  IF objExists THEN 1 ELSE 3

ClassifyBranch_NoCase1(objExists, pixExists) ==
  IF pixExists THEN 2 ELSE 3

ClassifyBranch_NoResume(objExists, pixExists) == 3

\* Resume policy: which case of the if / elif / else runs
ClassifyBranch(objExists, pixExists) ==
  IF objExists THEN 1 ELSE IF pixExists THEN 2 ELSE 3

\* "if not pixel_imp"
NoPixelOutput(pimp) == pimp = None

\* "if not object_imp or (pixel_imp and object_imp.getID() == pixel_imp.getID())"
NoObjectOutput(oimp, pimp) == oimp = None \/ (pimp # None /\ oimp = pimp)

\* Variant: the checkpoint is not written
SaveAs_Skipped(art, k, id) == art

\* IJ.saveAs(imp, "Tiff", path) on a checkpoint path
SaveAs(art, k, id) == [art EXCEPT ![k] = Content(id)]

\* What IJ.getImage() can return after a stage's macro: the image the stage
\* produced, or, when it produced none, whatever window is current (the crop
\* shown by the caller, the probability map of case 3 if it is still shown)
\* or nothing at all.
PixelOutcomes  == {"pix", "crop", None}
ObjectOutcomes == {"obj", "crop", None} \cup (IF pixel_imp = "pix" THEN {"pix"} ELSE {})

\* os.path.exists checks; case 1 opens the object file and returns it,
\* case 2 opens the probability file.
BgClassifyCheck ==
  /\ UNCHANGED auxVars
  /\ pc = "classify"
  /\ NoEvent
  /\ entryPix' = (pixelArt[Key] # None)
  /\ entryObj' = (objectArt[Key] # None)
  /\ branch' = ClassifyBranch(objectArt[Key] # None, pixelArt[Key] # None)
  /\ resumed' = (Key \in midKill)
  /\ midKill' = midKill \ {Key}
  /\ IF branch' = 1
       THEN result_imp' = objectArt[Key] /\ pc' = "analyze" /\ UNCHANGED pixel_imp
       ELSE IF branch' = 2
         THEN pixel_imp' = "pixfile" /\ pc' = "objCall" /\ UNCHANGED result_imp
         ELSE pc' = "pixCall" /\ UNCHANGED <<pixel_imp, result_imp>>
  /\ UNCHANGED <<cfgVars, edtVars, loopVars, status, ledger, pixelArt, objectArt,
                 cropFile, outlineFile, table, all_results, reached, imgFault,
                 outcome, extCalls, curImage, cPix, cObj, noNew,
                 temp_cropped_path>>

\* IJ.runMacro(pixel_macro_cmd)
BgPixelCall ==
  /\ UNCHANGED auxVars
  /\ pc = "pixCall"
  /\ \E o \in PixelOutcomes :
       /\ curImage' = o
       /\ IF o = "pix" THEN NoEvent ELSE EnvEvent
       /\ noNew' = (noNew \/ o # "pix")
  /\ cPix' = cPix + 1
  /\ extCalls' = extCalls + 1
  /\ pc' = "pixGot"
  /\ UNCHANGED <<cfgVars, edtVars, artVars, loopVars, status, ledger, cropFile,
                 outlineFile, table, all_results, reached, imgFault, outcome,
                 pixel_imp, result_imp, branch, entryPix, entryObj, cObj, resumed,
                 temp_cropped_path>>

\* pixel_imp = IJ.getImage(); check; IJ.saveAs(pixel_imp, "Tiff", pixel_prob_path)
BgPixelSave ==
  /\ UNCHANGED auxVars
  /\ pc = "pixGot"
  /\ NoEvent
  /\ IF NoPixelOutput(curImage)
       THEN \* raise: the ROI's except clause
            /\ outcome' = [outcome EXCEPT ![<<imgCur, roiIdx>>] = "failed"]
            /\ pc' = OnRoiException
            /\ UNCHANGED <<pixel_imp, pixelArt>>
       ELSE /\ pixel_imp' = curImage
            /\ pixelArt' = SaveAs(pixelArt, Key, curImage)
            /\ pc' = "objCall"
            /\ UNCHANGED outcome
  /\ UNCHANGED <<cfgVars, edtVars, loopVars, status, ledger, objectArt, midKill,
                 cropFile, outlineFile, table, all_results, reached, imgFault,
                 extCalls, curImage, result_imp, branch, entryPix, entryObj,
                 temp_cropped_path,
                 cPix, cObj, noNew, resumed>>

\* IJ.runMacro(object_macro_cmd), cases 2 and 3
BgObjectCall ==
  /\ UNCHANGED auxVars
  /\ pc = "objCall"
  /\ \E o \in ObjectOutcomes :
       /\ curImage' = o
       /\ IF o = "obj" THEN NoEvent ELSE EnvEvent
       /\ noNew' = (noNew \/ o # "obj")
  /\ cObj' = cObj + 1
  /\ extCalls' = extCalls + 1
  /\ pc' = "objGot"
  /\ UNCHANGED <<cfgVars, edtVars, artVars, loopVars, status, ledger, cropFile,
                 outlineFile, table, all_results, reached, imgFault, outcome,
                 pixel_imp, result_imp, branch, entryPix, entryObj, cPix, resumed,
                 temp_cropped_path>>

\* object_imp = IJ.getImage(); check; IJ.saveAs(object_imp, "Tiff",
\* object_prob_path); return object_imp.  finally: pixel_imp.close()
BgObjectSave ==
  /\ UNCHANGED auxVars
  /\ pc = "objGot"
  /\ NoEvent
  /\ IF NoObjectOutput(curImage, pixel_imp)
       THEN /\ outcome' = [outcome EXCEPT ![<<imgCur, roiIdx>>] = "failed"]
            /\ pc' = OnRoiException
            /\ UNCHANGED <<objectArt, result_imp>>
       ELSE /\ objectArt' = SaveAs(objectArt, Key, curImage)
            /\ result_imp' = Content(curImage)
            /\ pc' = "analyze"
            /\ UNCHANGED outcome
  /\ pixel_imp' = None
  /\ UNCHANGED <<cfgVars, edtVars, loopVars, status, ledger, pixelArt, midKill,
                 cropFile, outlineFile, table, all_results, reached, imgFault,
                 extCalls, curImage, branch, entryPix, entryObj, cPix, cObj,
                 temp_cropped_path,
                 noNew, resumed>>

\* ------------------------------- background task: rest of an ROI iteration

\* Variant: an ROI without objects leaves no record
AppendResult_SkipEmpty(results, r) ==
  IF r.cell_count = 0 THEN results ELSE Append(results, r)

\* self.all_results.append(single_roi_result)
AppendResult(results, r) == Append(results, r)

\* _analyze_results, extend all_image_outlines, append single_roi_result
BgAnalyze ==
  /\ UNCHANGED auxVars
  /\ pc = "analyze"
  /\ \/ \* the analysis raised: the ROI's except clause
        /\ EnvEvent
        /\ outcome' = [outcome EXCEPT ![<<imgCur, roiIdx>>] = "failed"]
        /\ pc' = OnRoiException
        /\ UNCHANGED <<all_results, all_image_outlines>>
     \/ /\ NoEvent
        /\ all_image_outlines' =
             all_image_outlines + analyze_results(result_imp, imgCur, roiIdx).outlines
        /\ all_results' = AppendResult(all_results, RoiResult(imgCur, roiIdx, result_imp))
        /\ outcome' = [outcome EXCEPT ![<<imgCur, roiIdx>>] = "ok"]
        /\ pc' = "cleanup"
  /\ UNCHANGED <<cfgVars, edtVars, artVars, clsVars, status, ledger, cropFile,
                 outlineFile, table, reached, imgFault, extCalls, imgCur,
                 roiIdx, total, roi_counter>>

\* progress = int(100.0 * roi_counter / total_rois_to_process), the value
\* handed to the progress bar after an ROI iteration
ProgressValue(counter, tot) == (100 * counter) \div tot

\* Variant: the crop is left in temp/
RemoveCrop_Kept(files, path) == files

\* if temp_cropped_path and os.path.exists(temp_cropped_path): os.remove(...)
RemoveCrop(files, path) == IF path # None THEN files \ {path} ELSE files

\* finally of the ROI: remove the crop, close stray windows, advance progress
BgRoiFinally ==
  /\ UNCHANGED auxVars
  /\ pc = "cleanup"
  /\ NoEvent
  /\ cropFile' = RemoveCrop(cropFile, temp_cropped_path)
  /\ temp_cropped_path' = None
  /\ roi_counter' = roi_counter + 1
  /\ roiIdx' = roiIdx + 1
  /\ curImage' = None /\ pixel_imp' = None /\ result_imp' = None /\ branch' = 0
  /\ entryPix' = FALSE /\ entryObj' = FALSE /\ cPix' = 0 /\ cObj' = 0
  /\ noNew' = FALSE /\ resumed' = FALSE
  /\ pc' = "roi"
  /\ UNCHANGED <<cfgVars, edtVars, artVars, status, ledger, outlineFile, table,
                 all_results, reached, imgFault, outcome, extCalls, imgCur,
                 total, all_image_outlines>>

\* After the ROI loop: save the outlines, image_obj.status = "Completed";
\* an exception marks the image "Failed".
BgImageEnd ==
  /\ UNCHANGED auxVars
  /\ pc = "imageEnd"
  /\ \/ /\ all_image_outlines > 0
        /\ EnvEvent
        /\ imgFault' = [imgFault EXCEPT ![imgCur] = "save"]
        /\ status' = [status EXCEPT ![imgCur] = "Failed"]
        /\ UNCHANGED outlineFile
     \/ /\ NoEvent
        /\ outlineFile' = IF all_image_outlines > 0
                            THEN [outlineFile EXCEPT ![imgCur] = all_image_outlines]
                            ELSE outlineFile
        /\ status' = [status EXCEPT ![imgCur] = "Completed"]
        /\ UNCHANGED imgFault
  /\ pc' = "image"
  /\ UNCHANGED <<cfgVars, edtVars, artVars, loopVars, clsVars, ledger, cropFile,
                 table, all_results, reached, outcome, extCalls>>

Next ==
  \/ \E sel \in Selections : StartRun(sel)
  \/ Cancel
  \/ Done
  \/ Kill
  \/ \E k \in Paths, stage \in {"pixel", "object"} : DeleteArtifact(k, stage)
  \/ BgMarkProcessing
  \/ BgSyncStatus
  \/ BgCountRois
  \/ BgImageBegin
  \/ BgRoiBegin
  \/ BgClassifyCheck
  \/ BgPixelCall
  \/ BgPixelSave
  \/ BgObjectCall
  \/ BgObjectSave
  \/ BgAnalyze
  \/ BgRoiFinally
  \/ BgImageEnd

Spec == Init /\ [][Next]_vars

\* ------------------------------------------ path naming taken on its own

\* File names and ROI names the naming is applied to: two images that
\* differ in their extension only, and names that contain the separator
NameFiles == {<<"1", ".", "t", "i", "f">>, <<"1", ".", "j", "p", "g">>,
              <<"1", "_", "a", ".", "t", "i", "f">>}
NameRois  == {<<"b">>, <<"a", "_", "b">>}
NameArgs  == [filename : NameFiles, roi_name : NameRois, i : 0..(MaxRois - 1)]

\* temp_cropped_path, pixel_prob_path and object_prob_path of an ROI
RoiPaths(a) ==
  LET base_name == FormatBaseName(a.filename, a.roi_name, a.i) IN
  [crop   |-> <<"temp/">> \o base_name \o <<"_cropped.tif">>,
   pixel  |-> <<"Ilastik_Probabilites/">> \o base_name \o <<"_probabilities.tif">>,
   object |-> <<"Ilastik_Probabilites/">> \o base_name \o <<"_objects.tif">>]

InitNames ==
  /\ InitRun
  /\ fnArg \in NameArgs \X NameArgs
  /\ fnRes = <<>>

\* The paths of two ROIs of a run are built
ApplyRoiPaths ==
  /\ fnRes = <<>>
  /\ fnRes' = <<RoiPaths(fnArg[1]), RoiPaths(fnArg[2])>>
  /\ UNCHANGED <<runVars, fnArg>>

NextNames == ApplyRoiPaths

SpecNames == InitNames /\ [][NextNames]_vars

\* ------------------------------------------- aggregation taken on its own

\* Raw records as doInBackground appends them to all_results: the same
\* (filename, roi_name) may occur more than once
RawRecords ==
  {[filename |-> f, roi_name |-> n, roi_area |-> 10, bregma_value |-> m[1],
    cell_count |-> m[2], total_cell_area |-> m[3]] :
     f \in Images, n \in RoiNames,
     m \in {<<Fin(1000), 2, 5>>, <<Fin(2000), 3, 7>>}}

InitAgg ==
  /\ InitRun
  /\ fnArg \in UNION {[1..n -> RawRecords] : n \in 1..MaxRecs}
  /\ fnRes = <<>>

\* done(), the "if self.all_results:" block up to final_results_list
ApplyAggregate ==
  /\ fnArg # <<>>
  /\ fnRes = <<>>
  /\ fnRes' = Aggregate(fnArg)
  /\ UNCHANGED <<runVars, fnArg>>

NextAgg == ApplyAggregate

SpecAgg == InitAgg /\ [][NextAgg]_vars

\* ------------------------------------------ positions taken on their own

\* Position values a raw record can carry: the "comment" property of an ROI
\* is whatever float() accepts, which the editor checks with float() too
Positions == {Fin(-500), Fin(1), Fin(1000), Fin(2000), Inf, NegInf, NaN}

\* Raw records of one image that differ in ROI name and position
PositionRecords ==
  {[filename |-> 1, roi_name |-> n, roi_area |-> 10, bregma_value |-> p,
    cell_count |-> 2, total_cell_area |-> 5] : n \in RoiNames, p \in Positions}

InitMean ==
  /\ InitRun
  /\ fnArg \in UNION {[1..n -> PositionRecords] : n \in 1..MaxRecs}
  /\ fnRes = <<>>

SpecMean == InitMean /\ [][NextAgg]_vars

\* ------------------------------------- aggregation of a reordered list

\* Raw records of one image: a small ROI piece, and a piece whose area
\* fills the mantissa
PermRecords ==
  {[filename |-> 1, roi_name |-> n, roi_area |-> m[1], bregma_value |-> m[2],
    cell_count |-> m[3], total_cell_area |-> m[4]] :
     n \in RoiNames,
     m \in {<<1, Fin(1000), 2, 5>>, <<2 ^ MantissaBits, Fin(2000), 3, 7>>}}

\* the orders in which a list of n records can be appended
Perms(n) == {f \in [1..n -> 1..n] : \A i, j \in 1..n : f[i] = f[j] => i = j}

Permute(rs, f) == [i \in 1..Len(rs) |-> rs[f[i]]]

\* all_results of two runs that yield the same records in different orders
InitPerm ==
  /\ InitRun
  /\ fnArg \in UNION {{<<rs, Permute(rs, f)>> : f \in Perms(Len(rs))} :
                       rs \in UNION {[1..n -> PermRecords] : n \in 1..MaxRecs}}
  /\ fnRes = <<>>

\* done() of each of the two runs, up to final_results_list
ApplyAggregateBoth ==
  /\ fnRes = <<>>
  /\ fnRes' = <<Aggregate(fnArg[1]), Aggregate(fnArg[2])>>
  /\ UNCHANGED <<runVars, fnArg>>

NextPerm == ApplyAggregateBoth

SpecPerm == InitPerm /\ [][NextPerm]_vars

\* ------------------------------------ the results table taken on its own

\* Results_DB.csv as a file: whether it exists, and its lines
NoFile     == [exists |-> FALSE, lines |-> <<>>]
HeaderLine == [kind |-> "header"]
RowLine(r) == [kind |-> "row", rec |-> r]

\* Project._verify_and_create_dirs, for the results table: a missing file is
\* created with the header row
VerifyAndCreateDirs(file) ==
  IF ~file.exists THEN [exists |-> TRUE, lines |-> <<HeaderLine>>] ELSE file

\* Variant: every run writes the header row
WriteResults_AlwaysHeader(file, results) ==
  IF results = <<>> THEN file
  ELSE LET final == Aggregate(results)
       IN  [exists |-> TRUE,
            lines |-> file.lines \o <<HeaderLine>>
                        \o [j \in 1..Len(final) |-> RowLine(final[j])]]

\* done(), the write of final_results_list: the file is opened for append,
\* the header row is written if the file did not exist or is empty, then
\* the rows
WriteResults(file, results) ==
  IF results = <<>> THEN file
  ELSE LET final == Aggregate(results)
           header == IF ~file.exists \/ file.lines = <<>>
                       THEN <<HeaderLine>> ELSE <<>>
       IN  [exists |-> TRUE,
            lines |-> file.lines \o header
                        \o [j \in 1..Len(final) |-> RowLine(final[j])]]

\* all_results of a run: nothing, or the record of one ROI
TableResults == {<<>>} \cup {<<r>> : r \in RawRecords}

\* fnRes is the file, fnArg the operations applied to it so far.  A project
\* directory starts without the file, or with an empty one.
InitTable ==
  /\ InitRun
  /\ fnArg = <<>>
  /\ fnRes \in {NoFile, [exists |-> TRUE, lines |-> <<>>]}

\* The project is opened (Project.__init__)
OpenProject ==
  /\ Len(fnArg) < MaxOps
  /\ fnRes' = VerifyAndCreateDirs(fnRes)
  /\ fnArg' = Append(fnArg, "open")
  /\ UNCHANGED runVars

\* A run of the open project ends and done() writes its results
WriteRun(results) ==
  /\ fnArg # <<>>
  /\ Len(fnArg) < MaxOps
  /\ fnRes' = WriteResults(fnRes, results)
  /\ fnArg' = Append(fnArg, "run")
  /\ UNCHANGED runVars

\* The file is deleted by hand between runs
DeleteTable ==
  /\ fnArg # <<>>
  /\ Len(fnArg) < MaxOps
  /\ fnRes.exists
  /\ fnRes' = NoFile
  /\ fnArg' = Append(fnArg, "delete")
  /\ UNCHANGED runVars

NextTable ==
  \/ OpenProject
  \/ \E results \in TableResults : WriteRun(results)
  \/ DeleteTable

SpecTable == InitTable /\ [][NextTable]_vars

\* ------------------------------------- the analysis of one label raster

\* Width and height of the analysed region (the crop), in pixels
RegionSize == 16

\* EXCLUDE_EDGE_PARTICLES: the bounding box of the particle reaches the
\* border of the analysed region
TouchesEdge(x, y, w, h) ==
  x = 0 \/ y = 0 \/ x + w = RegionSize \/ y + h = RegionSize

\* A particle with its bounding box in the coordinates of the crop
ParticleAt(x, y, w, h, a) ==
  [area |-> a, edge |-> TouchesEdge(x, y, w, h), x |-> x, y |-> y, w |-> w, h |-> h]

\* Particles a label raster can hold, disjoint from each other
ParticleKinds ==
  { ParticleAt(6, 1, 5, 5, 25),   ParticleAt(0, 0, 5, 5, 25),
    ParticleAt(12, 1, 3, 4, 12),  ParticleAt(1, 6, 5, 4, MinParticleSize),
    ParticleAt(12, 11, 4, 5, 19), ParticleAt(6, 7, 5, 4, MinParticleSize - 1) }

\* Bounding boxes of ROIs start here in the full image
RoiOrigins == {0, 100, 200}

\* outline.getBounds()
Bounds(p) == [x |-> p.x, y |-> p.y, w |-> p.w, h |-> p.h]

\* Variant: the outline stays where it is in the crop
Translate_Local(o, offset_x, offset_y) == o

\* outline.setLocation(current_bounds.x + offset_x, current_bounds.y + offset_y)
Translate(o, offset_x, offset_y) ==
  [o EXCEPT !.x = o.x + offset_x, !.y = o.y + offset_y]

\* _analyze_results on the particles ps of the raster of an ROI whose
\* bounding box starts at (offset_x, offset_y)
AnalyzeParticles(ps, offset_x, offset_y) ==
  LET kept == SelectSeq(ps, Retained)
  IN  [count      |-> Len(kept),
       total_area |-> SumArea(kept),
       outlines   |-> [i \in 1..Len(kept) |->
                         Translate(Bounds(kept[i]), offset_x, offset_y)]]

\* Lists of up to MaxParticles different particles
ParticleLists ==
  UNION { { ps \in [1..n -> ParticleKinds] : \A i, j \in 1..n : ps[i] = ps[j] => i = j }
          : n \in 0..MaxParticles }

\* fnArg is a raster with the origin of its ROI, fnRes the analysis of it, once made
InitAnalyze ==
  /\ InitRun
  /\ roiFile[2] = <<>>
  /\ \E ps \in ParticleLists, ox \in RoiOrigins, oy \in RoiOrigins :
       fnArg = [particles |-> ps, roi_x |-> ox, roi_y |-> oy]
  /\ fnRes = [done |-> FALSE]

ApplyAnalyze ==
  /\ ~fnRes.done
  /\ fnRes' = [done |-> TRUE,
               analysis |-> AnalyzeParticles(fnArg.particles, fnArg.roi_x, fnArg.roi_y)]
  /\ UNCHANGED <<runVars, fnArg>>

NextAnalyze == ApplyAnalyze

SpecAnalyze == InitAnalyze /\ [][NextAnalyze]_vars

\* ------------------------------------------- the ROI editor of an image

\* Texts of the name field and names of ROIs.  Of an ROI only the name is
\* followed: its bregma comment is taken as empty when the fields are
\* compared, and its geometry is left out
EdNames == {"", " ", "a", "b"}

\* text.strip()
Strip(t) == IF t = " " THEN "" ELSE t

\* Texts of the bregma field, and whether float() accepts them
EdBregmas == {"", "1", "x"}
IsNumber(t) == t = "1"

\* Variant: a name may be used once only
ValidNames_Unique(rois) ==
  /\ \A i \in 1..Len(rois) : Strip(rois[i].name) # ""
  /\ \A i, j \in 1..Len(rois) : rois[i].name = rois[j].name => i = j

\* Variant: names are not looked at
ValidNames_AllowEmpty(rois) == TRUE

\* _save_all_changes, the validation loop: every ROI has a name that is not
\* empty ("duplicate names are allowed")
ValidNames(rois) == \A i \in 1..Len(rois) : Strip(rois[i].name) # ""

\* new_rois_list of _save_all_changes
RoiRecords(rois) == [i \in 1..Len(rois) |-> [roi_name |-> rois[i].name]]

\* _apply_text_field_changes on the editor e: the texts of the fields are
\* applied to the selected ROI, unless nothing changed or the bregma text is
\* not a number
ApplyTextFieldChanges(e) ==
  IF e.sel = 0 THEN e
  ELSE LET new_name   == Strip(e.roi_name_field)
           new_bregma == Strip(e.bregma_field)
       IN  IF e.rm[e.sel].name = new_name /\ new_bregma = "" THEN e
           ELSE IF new_bregma # "" /\ ~IsNumber(new_bregma)
                  THEN [e EXCEPT !.bregma_field = ""]
                  ELSE [e EXCEPT !.rm[e.sel].name = new_name, !.unsaved_changes = TRUE]

\* ROI sets a project directory can hold for the image when it is opened
EditorFiles == {<<>>, <<[name |-> "a"]>>, <<[name |-> " "]>>}

\* fnArg is the editor, fnRes what it saves to: the ROI-set file, the ROI
\* records of the image in memory and its rows of Roi_DB.csv
InitEditor ==
  /\ InitRun
  /\ roiFile[2] = <<>>
  /\ fnArg = [open |-> FALSE, rm |-> <<>>, sel |-> 0, roi_name_field |-> "",
              bregma_field |-> "", unsaved_changes |-> FALSE, result |-> "none"]
  /\ \E f \in EditorFiles :
       fnRes = [roi_file |-> f, rois |-> RoiRecords(f), roi_db |-> RoiRecords(f)]

\* ROIEditor.__init__: the ROI manager is filled from the file
EdOpen ==
  /\ ~fnArg.open
  /\ fnArg' = [open |-> TRUE, rm |-> fnRes.roi_file, sel |-> 0,
               roi_name_field |-> "", bregma_field |-> "",
               unsaved_changes |-> FALSE, result |-> "none"]
  /\ UNCHANGED <<runVars, fnRes>>

\* The user types into the name field and the bregma field
EdType(n, b) ==
  /\ fnArg.open
  /\ fnArg' = [fnArg EXCEPT !.roi_name_field = n, !.bregma_field = b,
                            !.result = "none"]
  /\ UNCHANGED <<runVars, fnRes>>

\* A field loses the focus or Enter is pressed in it
EdApply ==
  /\ fnArg.open
  /\ fnArg' = [ApplyTextFieldChanges(fnArg) EXCEPT !.result = "none"]
  /\ UNCHANGED <<runVars, fnRes>>

\* _on_roi_select: the fields show the selected ROI
OnRoiSelect(i) ==
  /\ fnArg.open
  /\ i \in 1..Len(fnArg.rm)
  /\ fnArg' = [fnArg EXCEPT !.sel = i, !.roi_name_field = fnArg.rm[i].name,
                            !.bregma_field = "", !.result = "none"]
  /\ UNCHANGED <<runVars, fnRes>>

\* _create_new_roi: the selection drawn on the image becomes an ROI named
\* by the name field; it is selected and the fields are cleared
CreateNewRoi ==
  /\ fnArg.open
  /\ Len(fnArg.rm) < MaxRois
  /\ fnArg' = IF Strip(fnArg.roi_name_field) = ""
                THEN [fnArg EXCEPT !.result = "none"]
                ELSE [fnArg EXCEPT
                        !.rm = Append(@, [name |-> Strip(fnArg.roi_name_field)]),
                        !.sel = Len(fnArg.rm) + 1,
                        !.roi_name_field = "", !.bregma_field = "",
                        !.unsaved_changes = TRUE, !.result = "none"]
  /\ UNCHANGED <<runVars, fnRes>>

\* _delete_selected_roi, confirmed
DeleteSelectedRoi ==
  /\ fnArg.open
  /\ fnArg.sel # 0
  /\ fnArg' = [fnArg EXCEPT
                 !.rm = SubSeq(@, 1, fnArg.sel - 1)
                          \o SubSeq(@, fnArg.sel + 1, Len(@)),
                 !.sel = 0, !.roi_name_field = "", !.bregma_field = "",
                 !.unsaved_changes = TRUE, !.result = "none"]
  /\ UNCHANGED <<runVars, fnRes>>

\* _save_and_close: the fields are applied, _save_all_changes validates the
\* names, replaces the ROI records of the image and saves the ROI manager
\* (which writes nothing when it is empty); the databases are synced and
\* the editor is closed.  A rejected save returns before any of that.
SaveAndClose ==
  /\ fnArg.open
  /\ LET e == ApplyTextFieldChanges(fnArg) IN
     IF ~ValidNames(e.rm)
       THEN /\ fnArg' = [e EXCEPT !.result = "rejected"]
            /\ UNCHANGED fnRes
       ELSE /\ fnArg' = [e EXCEPT !.open = FALSE, !.unsaved_changes = FALSE,
                                  !.result = "saved"]
            /\ fnRes' = [roi_file |-> IF e.rm = <<>> THEN fnRes.roi_file ELSE e.rm,
                         rois |-> RoiRecords(e.rm),
                         roi_db |-> RoiRecords(e.rm)]
  /\ UNCHANGED runVars

\* windowClosing, changes discarded or none: cleanup
EdClose ==
  /\ fnArg.open
  /\ fnArg' = [fnArg EXCEPT !.open = FALSE, !.result = "none"]
  /\ UNCHANGED <<runVars, fnRes>>

NextEditor ==
  \/ EdOpen
  \/ \E n \in EdNames, b \in EdBregmas : EdType(n, b)
  \/ EdApply
  \/ \E i \in 1..MaxRois : OnRoiSelect(i)
  \/ CreateNewRoi
  \/ DeleteSelectedRoi
  \/ SaveAndClose
  \/ EdClose

SpecEditor == InitEditor /\ [][NextEditor]_vars

\* ------------------------- runs of one image separated by edits of its ROIs

\* Geometries an ROI can be given, and an ROI of the editor with its geometry
Geoms == 1..(MaxRois + 1)
EdRoi(n, g) == [name |-> n, geom |-> g]

\* The ROI set of the image when the project is opened: ROIs of different
\* geometry, the first two sharing a name
EditedRoiSet ==
  [i \in 1..MaxRois |-> EdRoi(IF i <= 2 THEN <<"a">> ELSE <<"b">>, i)]

\* Checkpoint paths of the image, and prob_map_path of its ROI at idx
EditKeys == {BaseNames[1, n, i] : n \in RoiNames, i \in 0..(MaxRois - 1)}
EditKey(rois, idx) == BaseNames[1, rois[idx].name, idx - 1]

\* A checkpoint is followed by the geometry whose crop it was classified
\* from; 0 = no file
NoArt == 0

\* _run_ilastik_classification for the ROI at idx of rois, with the
\* checkpoints st: case 1 returns the object file as it is; case 2 runs the
\* object stage on the probability file as it is; case 3 classifies the crop
\* of the ROI.  raster is the label raster returned (NoArt when the object
\* stage produced nothing and the ROI's except clause ran).
ClassifyRoi(st, rois, idx, objFails) ==
  LET k == EditKey(rois, idx)
      b == ClassifyBranch(st.obj[k] # NoArt, st.pix[k] # NoArt)
      g == rois[idx].geom
  IN  IF b = 1 THEN [pix |-> st.pix, obj |-> st.obj, raster |-> st.obj[k]]
      ELSE LET pix == IF b = 2 THEN st.pix ELSE [st.pix EXCEPT ![k] = g] IN
           IF objFails THEN [pix |-> pix, obj |-> st.obj, raster |-> NoArt]
           ELSE [pix |-> pix, obj |-> [st.obj EXCEPT ![k] = pix[k]],
                 raster |-> pix[k]]

\* The ROI loop of doInBackground from idx on: acc holds the checkpoints and
\* the measurements made (which ROI, its geometry, the geometry the measured
\* raster was classified from); fail is the ROI whose object stage fails
RECURSIVE RunRois(_, _, _, _)
RunRois(acc, rois, idx, fail) ==
  IF idx > Len(rois) THEN acc
  ELSE LET c == ClassifyRoi(acc, rois, idx, idx = fail) IN
       RunRois([pix |-> c.pix, obj |-> c.obj,
                measured |-> IF c.raster = NoArt THEN acc.measured
                             ELSE Append(acc.measured,
                                         [roi |-> idx, geom |-> rois[idx].geom,
                                          from |-> c.raster])],
               rois, idx + 1, fail)

\* fnArg is the image: its ROI set, its checkpoints and the number of
\* operations so far; fnRes the measurements of the last run
InitEdits ==
  /\ InitRun
  /\ roiFile[2] = <<>>
  /\ fnArg = [rois |-> EditedRoiSet, pix |-> [k \in EditKeys |-> NoArt],
              obj |-> [k \in EditKeys |-> NoArt], ops |-> 0]
  /\ fnRes = <<>>

\* A run over the image
RunImage(fail) ==
  /\ fnArg.ops < MaxOps
  /\ fnArg.rois # <<>>
  /\ LET r == RunRois([pix |-> fnArg.pix, obj |-> fnArg.obj, measured |-> <<>>],
                      fnArg.rois, 1, fail) IN
       /\ fnArg' = [fnArg EXCEPT !.pix = r.pix, !.obj = r.obj, !.ops = @ + 1]
       /\ fnRes' = r.measured
  /\ UNCHANGED runVars

\* The ROI at i is dragged or resized in the editor and the ROI set is
\* saved: _sync_current_roi_from_image replaces the geometry and keeps the
\* name; the save writes the ROI set and nothing else
EditGeometry(i, g) ==
  /\ fnArg.ops < MaxOps
  /\ i \in 1..Len(fnArg.rois)
  /\ g # fnArg.rois[i].geom
  /\ fnArg' = [fnArg EXCEPT !.rois[i].geom = g, !.ops = @ + 1]
  /\ UNCHANGED <<runVars, fnRes>>

\* The ROI at i is deleted in the editor and the ROI set is saved: the
\* ROIs after it move up by one
EditDelete(i) ==
  /\ fnArg.ops < MaxOps
  /\ i \in 1..Len(fnArg.rois)
  /\ fnArg' = [fnArg EXCEPT
                 !.rois = SubSeq(@, 1, i - 1) \o SubSeq(@, i + 1, Len(@)),
                 !.ops = @ + 1]
  /\ UNCHANGED <<runVars, fnRes>>

NextEdits ==
  \/ \E fail \in 0..MaxRois : RunImage(fail)
  \/ \E i \in 1..MaxRois, g \in Geoms : EditGeometry(i, g)
  \/ \E i \in 1..MaxRois : EditDelete(i)

SpecEdits == InitEdits /\ [][NextEdits]_vars

\* ------------------------------------- the images of a project: loads,
\* saves and imports

\* File names, in the order sorted() gives them
FileOrder == <<"10_a.tif", "2_b.png">>
FileNames == {FileOrder[i] : i \in 1..Len(FileOrder)}

\* _get_natural_sort_key: the number before the first underscore
NaturalKey(f) == IF f = "10_a.tif" THEN 10 ELSE 2

\* f.lower().endswith(('.tif', '.tiff', 'jpg', 'jpeg'))
IsImageName(f) == f = "10_a.tif"

\* Content of a file of Images/: 0 = no such file, 1 = the file the
\* directory held from the start, 2 = a copy of a source file
NoContent == 0

Range(seq) == {seq[i] : i \in 1..Len(seq)}

\* sorted(...) by file name of the names in S
SortedNames(S) == SelectSeq(FileOrder, LAMBDA f : f \in S)

\* self.images.sort(key=self._get_natural_sort_key): stable
SortByKey(seq) ==
  SelectSeq(seq, LAMBDA f : NaturalKey(f) = 2)
    \o SelectSeq(seq, LAMBDA f : NaturalKey(f) = 10)

\* Project.__init__: _load_project_db keeps the names of the databases whose
\* file exists, one entry per name; _scan_for_new_images adds the image
\* files of Images/ not yet in the list; the list is sorted
LoadProject(disk, db) ==
  LET loaded  == SortedNames({f \in db : disk[f] # NoContent})
      scanned == SortedNames({f \in FileNames : disk[f] # NoContent /\ IsImageName(f)
                                                /\ f \notin Range(loaded)})
  IN  SortByKey(loaded \o scanned)

\* Selections of the file chooser: the names of one or two source files
FileSelections == UNION {[1..n -> FileNames] : n \in 1..2}

\* The import workers that can be alive together: the import button stays
\* enabled while an import runs
ImportWorkers == {1, 2}

\* Content of the files worker k copies
SourceContent(k) == k + 1

IdleImport ==
  [pc |-> "idle", todo |-> <<>>, skipped_files |-> <<>>, current |-> FALSE,
   cancelled |-> FALSE]

\* fnArg is the project directory: the files of Images/, the names in the
\* databases, the imports started so far; fnRes the application: the image
\* list of the Project object in use, and the import workers, each with
\* whether the Project object it was given is still the one in use
InitImport ==
  /\ InitRun
  /\ roiFile[2] = <<>>
  /\ \E present \in SUBSET FileNames :
       LET disk == [f \in FileNames |-> IF f \in present THEN 1 ELSE NoContent] IN
         /\ fnArg = [disk |-> disk, db |-> {}, imports |-> 0]
         /\ fnRes = [images |-> LoadProject(disk, {}),
                     worker |-> [k \in ImportWorkers |-> IdleImport]]

\* open_project_action / load_project: a new Project object replaces the
\* one in use; a running worker keeps the object it was given
OpenProjectDir ==
  /\ fnRes' = [images |-> LoadProject(fnArg.disk, fnArg.db),
               worker |-> [k \in ImportWorkers |->
                             [fnRes.worker[k] EXCEPT !.current = FALSE]]]
  /\ UNCHANGED <<runVars, fnArg>>

\* sync_project_db (save_project_action) and _sync_image_status_db (a
\* quantification run): a row is written for every image of the list
SaveProject ==
  /\ fnArg' = [fnArg EXCEPT !.db = Range(fnRes.images)]
  /\ UNCHANGED <<runVars, fnRes>>

\* import_images_action: an ImageImportWorker over the selected files is
\* created and executed
ImportImages(k, files) ==
  /\ fnArg.imports < MaxImports
  /\ fnRes.worker[k].pc = "idle"
  /\ fnArg' = [fnArg EXCEPT !.imports = @ + 1]
  /\ fnRes' = [fnRes EXCEPT !.worker[k] =
                 [pc |-> "loop", todo |-> files, skipped_files |-> <<>>,
                  current |-> TRUE, cancelled |-> FALSE]]
  /\ UNCHANGED runVars

\* Top of the loop of doInBackground with the cancellation flag set: break
ImportCancelled(k) ==
  /\ fnRes.worker[k].pc = "loop"
  /\ fnRes.worker[k].todo # <<>>
  /\ fnRes' = [fnRes EXCEPT !.worker[k].todo = <<>>, !.worker[k].cancelled = TRUE]
  /\ UNCHANGED <<runVars, fnArg>>

\* dest_file.exists(): an existing destination is recorded as skipped and
\* the loop continues; otherwise the worker goes on to the copy
ImportExists(k) ==
  LET w == fnRes.worker[k] IN
  /\ w.pc = "loop"
  /\ w.todo # <<>>
  /\ fnRes' = IF fnArg.disk[Head(w.todo)] # NoContent
                THEN [fnRes EXCEPT !.worker[k].skipped_files = Append(@, Head(w.todo)),
                                   !.worker[k].todo = Tail(@)]
                ELSE [fnRes EXCEPT !.worker[k].pc = "copy"]
  /\ UNCHANGED <<runVars, fnArg>>

\* Files.copy(source, dest, REPLACE_EXISTING) and the append of a
\* ProjectImage to the image list of the worker's project; a copy that
\* raises is logged and nothing is appended
ImportCopy(k) ==
  LET w   == fnRes.worker[k]
      src == Head(w.todo) IN
  /\ w.pc = "copy"
  /\ \/ /\ fnRes' = [fnRes EXCEPT !.worker[k].pc = "loop", !.worker[k].todo = Tail(@)]
        /\ UNCHANGED fnArg
     \/ /\ fnArg' = [fnArg EXCEPT !.disk[src] = SourceContent(k)]
        /\ fnRes' = [fnRes EXCEPT
             !.images = IF w.current THEN Append(@, src) ELSE @,
             !.worker[k].pc = "loop",
             !.worker[k].todo = Tail(@)]
  /\ UNCHANGED runVars

\* doInBackground returns and done() runs
ImportDone(k) ==
  /\ fnRes.worker[k].pc = "loop"
  /\ fnRes.worker[k].todo = <<>>
  /\ fnRes' = [fnRes EXCEPT !.worker[k] = IdleImport]
  /\ UNCHANGED <<runVars, fnArg>>

NextImport ==
  \/ OpenProjectDir
  \/ SaveProject
  \/ \E k \in ImportWorkers :
       \/ \E files \in FileSelections : ImportImages(k, files)
       \/ ImportCancelled(k)
       \/ ImportExists(k)
       \/ ImportCopy(k)
       \/ ImportDone(k)

SpecImport == InitImport /\ [][NextImport]_vars

\* The application when the write of the results table can fail
NextFail == Next \/ DoneWriteFails

SpecFail == Init /\ [][NextFail]_vars

\* The application with a second worker: the user may start a run while
\* another one is in progress
NextGui == Next \/ OtherWorker

SpecGui == Init /\ [][NextGui]_vars

\* ======================================================================
\* Properties
\* ======================================================================

\* The current classification has returned a raster to its caller
Returned == branch # 0 /\ result_imp # None

\* C1: whenever classification is entered for an ROI whose object-stage
\* artifact exists, it returns the content of that artifact and makes no
\* pixel-stage and no object-stage call, whether or not the pixel-stage
\* artifact exists.
C1_ObjectArtifactShortCircuits ==
  (branch # 0 /\ entryObj) =>
     /\ branch = 1
     /\ cPix = 0 /\ cObj = 0
     /\ pc \in {"analyze", "cleanup"}
     /\ result_imp = objectArt[Key]

\* C1 witness: an ROI measured from its object artifact while no pixel
\* artifact exists for it
C1_Witness ==
  /\ branch = 1 /\ entryObj /\ ~entryPix
  /\ pc = "cleanup" /\ outcome[<<imgCur, roiIdx>>] = "ok"

\* C2: if only the pixel-stage artifact exists when classification is
\* entered, the pixel stage is never called, the object stage is called at
\* most once and exactly once by the time classification returns, and then
\* the object artifact exists (it is the raster returned) next to the
\* untouched pixel artifact.
C2_PixelArtifactResumes ==
  (branch # 0 /\ entryPix /\ ~entryObj) =>
     /\ branch = 2
     /\ cPix = 0 /\ cObj <= 1
     /\ pixelArt[Key] # None
     /\ (result_imp # None => cObj = 1 /\ objectArt[Key] = result_imp)

\* C2 witness: the previous run measured every ROI, one artifact was then
\* deleted by hand, and this run regenerated an object artifact in case 2
C2_Witness ==
  /\ prev.any /\ prev.clean /\ ~prev.nodelete /\ events = 1
  /\ branch = 2 /\ result_imp # None /\ objectArt[Key] # None

\* C3: in case 3 the pixel stage is called and its output is on disk before
\* the object stage is called; whenever a classification has returned, the
\* object artifact exists; a kill between the two stages leaves the pixel
\* artifact and no object artifact, and the next classification of that key
\* runs case 2.
C3_StagedPersistence ==
  /\ (branch = 3 /\ pc = "pixCall") => (cPix = 0 /\ cObj = 0)
  /\ (branch = 3 /\ pc = "pixGot") => (cPix = 1 /\ cObj = 0)
  /\ (branch = 3 /\ pc \in {"objCall", "objGot"}) =>
        /\ cPix = 1
        /\ cObj = (IF pc = "objGot" THEN 1 ELSE 0)
        /\ pixelArt[Key] # None
        /\ objectArt[Key] = None
  /\ (branch = 3 /\ result_imp # None) =>
        (cPix = 1 /\ cObj = 1 /\ pixelArt[Key] # None)
  /\ Returned => objectArt[Key] = result_imp
  /\ \A k \in midKill : pixelArt[k] # None /\ objectArt[k] = None
  /\ (branch # 0 /\ resumed) => (branch = 2 /\ cPix = 0)

\* C3 witness: a classification killed between its stages is resumed in
\* case 2 and returns
C3_Witness == resumed /\ branch = 2 /\ Returned /\ pc = "analyze"

\* C4: a pixel-stage call is only made for a key without pixel artifact,
\* and no step of the pipeline (only a deletion by hand) removes or changes
\* an existing pixel-stage or object-stage artifact.
C4_ArtifactsNeverRedone ==
  [][ /\ (cPix' = cPix + 1) => (pixelArt[Key] = None)
      /\ \/ pixelArt' = pixelArt /\ objectArt' = objectArt
         \/ \A k \in Paths :
              /\ pixelArt[k] # None => pixelArt'[k] = pixelArt[k]
              /\ objectArt[k] # None => objectArt'[k] = objectArt[k]
         \/ \E k \in Paths, stage \in {"pixel", "object"} : DeleteArtifact(k, stage) ]_vars

\* C4 witness: a later run is classifying a key whose pixel artifact exists
C4_Witness == runNo = 2 /\ entryPix /\ pc = "objGot" /\ cObj = 1

C6_NoNewOutputFails ==
  noNew =>
     /\ pc \in {"pixGot", "objGot", "cleanup"}
     /\ result_imp = None
     /\ pc = "cleanup" =>
          (pixel_imp = None /\ outcome[<<imgCur, roiIdx>>] = "failed")

\* C7 as stated: when done() has run on a cancelled worker, the rows it
\* appended are the aggregate of exactly the raw records that existed when
\* cancellation was requested.
C7_Original ==
  (cancelled /\ doneRan) => RunRows = Aggregate(recsAtCancel)

\* C7: when done() has run on a cancelled worker, the raw records that
\* existed when cancellation was requested are a prefix of all_results, and
\* the rows appended are the aggregate of that prefix or of that prefix and
\* the record of the one ROI that was in progress at the request.
C7_CancelKeepsRecords ==
  (cancelled /\ doneRan) =>
     LET N == Len(recsAtCancel) IN
       /\ N <= Len(all_results)
       /\ SubSeq(all_results, 1, N) = recsAtCancel
       /\ Len(all_results) <= N + 1
       /\ \E n \in N..Len(all_results) :
             RunRows = Aggregate(SubSeq(all_results, 1, n))

\* C7 witness: cancellation arrived after one ROI had been measured and
\* before the task returned; done() appended that ROI's row
C7_Witness ==
  /\ cancelled /\ doneRan /\ pc = "returned"
  /\ Len(recsAtCancel) = 1 /\ Len(RunRows) = 1

\* C8: when a cancelled run is over, every selected image the image loop
\* never reached has, in memory and in the status ledger, the status it had
\* before the run started.
C8_CancelKeepsStatus ==
  (RunOver /\ cancelled) =>
     \A img \in selected \ reached :
        status[img] = preStatus[img] /\ ledger[img] = preStatus[img]

\* Raw records of the ROIs of img from index i on that were measured, in
\* ROI order, each computed from that ROI's own object raster
RECURSIVE RecordsOfRois(_, _)
RecordsOfRois(img, i) ==
  IF i > Len(roiFile[img]) THEN <<>>
  ELSE (IF outcome[<<img, i>>] = "ok"
          THEN <<RoiResult(img, i, objectArt[BaseName(img, i)])>>
          ELSE <<>>) \o RecordsOfRois(img, i + 1)

\* The same over a set of images, in project order
RECURSIVE RecordsOfImages(_)
RecordsOfImages(S) ==
  IF S = {} THEN <<>>
  ELSE RecordsOfRois(Min(S), 1) \o RecordsOfImages(S \ {Min(S)})

\* C9: when a run that was not cancelled has returned (and before any
\* artifact is deleted by hand afterwards), every ROI of every
\* selected image that has an ROI set and whose image and ROI set could be
\* opened was processed, whatever happened to the other ROIs, and
\* all_results holds exactly the records of the ROIs that did not raise,
\* each depending on its own ROI only.
C9_FailureIsolation ==
  (pc = "returned" /\ ~cancelled /\ ~deleted) =>
     LET done == {img \in selected :
                    has_roi(img) /\ imgFault[img] \notin {"open", "load"}} IN
       /\ \A img \in done : \A i \in 1..Len(roiFile[img]) :
             outcome[<<img, i>>] # "none"
       /\ all_results = RecordsOfImages(done)

\* C9 witness: the first ROI of image 1 raised; its sibling and the ROI of
\* the next image were measured and recorded
C9_Witness ==
  /\ pc = "returned" /\ ~cancelled /\ ~deleted /\ selected = {1, 2}
  /\ outcome[<<1, 1>>] = "failed" /\ outcome[<<1, 2>>] = "ok"
  /\ outcome[<<2, 1>>] = "ok"
  /\ Len(all_results) = 2

\* C10: from the moment the image loop has given up on an image (its file
\* could not be opened, or loading its ROI set or saving its outlines
\* raised) until the next run starts, that image's status is "Failed".
C10_ImageFaultMarksFailed ==
  \A img \in Images : imgFault[img] # "none" => status[img] = "Failed"

\* C11: at every step boundary of the background task after its first
\* ledger write, the status ledger holds the in-memory status of every image.
C11_LedgerFollowsStatus ==
  (Active /\ ~doneRan /\ pc \notin {"queued", "sync"}) =>
     \A img \in Images : ledger[img] = status[img]

\* C12: done() reads all_results only after the background task has
\* returned: nothing is appended to the list once done() has read it, so
\* the rows done() wrote are the aggregate of the list as it stands.
C12_ResultsHandedOverAfterReturn ==
  doneRan => RunRows = AppendResults(<<>>, all_results)

\* C13: never two external classifier calls in progress at once, and never
\* two runs inside their ROI processing at once.
C13_SingleFlight ==
  /\ ~(pc \in {"pixCall", "objCall"} /\ other.pc \in {"pixCall", "objCall"})
  /\ ~(/\ pc \in {"roi", "classify", "pixCall", "pixGot", "objCall",
                  "objGot", "analyze", "cleanup"}
       /\ other.pc \in {"roi", "classify", "pixCall", "pixGot", "objCall",
                        "objGot", "analyze", "cleanup"})

\* C14: two ROIs that differ in their image or in their index get different
\* crop paths, different pixel-stage paths and different object-stage
\* paths, whatever the file names and the ROI names.
C14_DistinctPaths ==
  (/\ fnRes # <<>>
   /\ <<fnArg[1].filename, fnArg[1].i>> # <<fnArg[2].filename, fnArg[2].i>>) =>
     /\ fnRes[1].crop # fnRes[2].crop
     /\ fnRes[1].pixel # fnRes[2].pixel
     /\ fnRes[1].object # fnRes[2].object

C17_StatusMachine ==
  [][ pc' # "idle" =>
        \A img \in Images :
           status'[img] # status[img] =>
              \/ status'[img] = "Processing"
              \/ /\ status'[img] \in {"Completed", "Failed"}
                 /\ status[img] = "Processing" ]_vars

\* C18: an ROI is extracted, classified or measured only for an image whose
\* status was "Ready to Quantify" when the run was started.
C18_GateDeterminesEligibility ==
  /\ temp_cropped_path # None => preStatus[imgCur] = "Ready to Quantify"
  /\ \A p \in Pairs :
        outcome[p] # "none" => preStatus[p[1]] = "Ready to Quantify"

\* C19: every step of a run, the aggregation, the write of the results table
\* and the final write of the status file included, executes on the
\* background task: no step taken on the event dispatch thread changes the
\* results table or the status file.
C19_FileWritesOnBackgroundOnly ==
  [][OnEventThread => table' = table /\ ledger' = ledger]_vars

\* C20: the aggregation yields exactly one record for every (image, ROI
\* name) key present in the raw records and none for any other key, and the
\* roi_area, cell_count and total_cell_area of that record are the sums of
\* these fields over all raw records with the key.
C20_AggregateSumsPerKey ==
  fnRes # <<>> =>
    LET Group(f, n) ==
          {j \in 1..Len(fnArg) : fnArg[j].filename = f /\ fnArg[j].roi_name = n}
        RECURSIVE Sum(_, _)
        Sum(S, field) ==
          IF S = {} THEN 0
          ELSE LET j == CHOOSE k \in S : TRUE
               IN  fnArg[j][field] + Sum(S \ {j}, field)
        Rows(f, n) ==
          {j \in 1..Len(fnRes) : fnRes[j].filename = f /\ fnRes[j].roi_name = n}
    IN  \A f \in Images, n \in RoiNames :
          IF Group(f, n) = {}
            THEN Rows(f, n) = {}
            ELSE /\ Cardinality(Rows(f, n)) = 1
                 /\ \A j \in Rows(f, n) :
                      /\ fnRes[j].roi_area = Sum(Group(f, n), "roi_area")
                      /\ fnRes[j].cell_count = Sum(Group(f, n), "cell_count")
                      /\ fnRes[j].total_cell_area =
                           Sum(Group(f, n), "total_cell_area")

\* two records of one ROI, {area 10, count 2, total 5} and {area 10, count 3,
\* total 7}, at positions 1.0 and 2.0, have been aggregated into one record
\* {area 20, count 5, total 12} at position "1.500"
C20_Witness ==
  /\ fnArg = <<[filename |-> 1, roi_name |-> <<"a">>, roi_area |-> 10,
                bregma_value |-> Fin(1000), cell_count |-> 2, total_cell_area |-> 5],
               [filename |-> 1, roi_name |-> <<"a">>, roi_area |-> 10,
                bregma_value |-> Fin(2000), cell_count |-> 3, total_cell_area |-> 7]>>
  /\ fnRes = <<[filename |-> 1, roi_name |-> <<"a">>, roi_area |-> 20,
                bregma_value |->
                  [k |-> "fin", neg |-> FALSE, whole |-> 1, frac |-> 500],
                cell_count |-> 5, total_cell_area |-> 12]>>

\* C21: the position of an aggregated record is a decimal number with three
\* decimals, and it is the arithmetic mean of the positions of the raw
\* records of its group, to the nearest thousandth.
C21_PositionIsMean ==
  fnRes # <<>> =>
    \A j \in 1..Len(fnRes) :
      LET G == {i \in 1..Len(fnArg) : fnArg[i].filename = fnRes[j].filename
                                       /\ fnArg[i].roi_name = fnRes[j].roi_name}
          RECURSIVE Sum(_)
          Sum(S) == IF S = {} THEN 0
                    ELSE LET i == CHOOSE x \in S : TRUE
                         IN  fnArg[i].bregma_value.v + Sum(S \ {i})
          b == fnRes[j].bregma_value
          m == (IF b.neg THEN -1 ELSE 1) * (b.whole * 1000 + b.frac)
      IN  /\ b.k = "fin"
          /\ b.frac \in 0..999
          /\ 2 * Abs(m * Cardinality(G) - Sum(G)) <= Cardinality(G)

\* C22 as stated: for every reordering of a list of raw records the
\* aggregation yields the same set of records: same keys, same summed
\* fields, same averaged position.
C22_Original ==
  fnRes # <<>> =>
    {fnRes[1][j] : j \in 1..Len(fnRes[1])} = {fnRes[2][j] : j \in 1..Len(fnRes[2])}

\* C22: for every reordering of a list of raw records the aggregation yields
\* one record for each of the same keys with the same cell_count; the
\* floating-point fields are accumulated in list order, and the whole record
\* is the same whenever its group has at most two raw records.
C22_OrderInsensitiveUpToRounding ==
  fnRes # <<>> =>
    /\ Len(fnRes[1]) = Len(fnRes[2])
    /\ \A i \in 1..Len(fnRes[1]) :
         \E j \in 1..Len(fnRes[2]) :
           /\ fnRes[2][j].filename = fnRes[1][i].filename
           /\ fnRes[2][j].roi_name = fnRes[1][i].roi_name
           /\ fnRes[2][j].cell_count = fnRes[1][i].cell_count
           /\ Cardinality({k \in 1..Len(fnArg[1]) :
                             /\ fnArg[1][k].filename = fnRes[1][i].filename
                             /\ fnArg[1][k].roi_name = fnRes[1][i].roi_name}) <= 2
                => fnRes[2][j] = fnRes[1][i]

\* a list with two records of one ROI and a record of another, and a
\* reordering of it that yields the same records in another order
C22_Witness ==
  /\ fnRes # <<>>
  /\ Len(fnArg[1]) = 3
  /\ Len(fnRes[1]) = 2
  /\ fnRes[1] # fnRes[2]
  /\ {fnRes[1][j] : j \in 1..2} = {fnRes[2][j] : j \in 1..2}

\* C23: the results table is append-only: no step of the program removes,
\* changes or moves a data row that is in the table, so after any sequence
\* of runs the rows of every earlier run are where they were written; a
\* run over images that were processed before adds rows.
C23_TableAppendOnly ==
  [][/\ Len(table') >= Len(table)
     /\ SubSeq(table', 1, Len(table)) = table]_vars

\* a second run over the images of the first has been completed: the rows
\* of the first run are in place and rows of the second follow them
C23_Witness ==
  /\ runNo = 2
  /\ RunOver
  /\ prev.any /\ prev.sel = selected
  /\ prev.rows # <<>>
  /\ tableStart = Len(prev.rows)
  /\ SubSeq(table, 1, tableStart) = prev.rows
  /\ Len(table) > tableStart

\* C24: after any sequence of project opens and runs a results table that
\* holds anything holds exactly one header row, and it is its first row:
\* the header is written by the project when it creates the file and by a
\* run only when the file does not exist or is empty.
C24_OneHeaderFirst ==
  (fnArg # <<>> /\ fnRes.lines # <<>>) =>
    /\ fnRes.lines[1].kind = "header"
    /\ \A j \in 2..Len(fnRes.lines) : fnRes.lines[j].kind = "row"

\* the file was deleted after the project had created it; the next run
\* wrote the header and its row, the run after it its row only
C24_Witness ==
  /\ fnArg = <<"open", "delete", "run", "run">>
  /\ Len(fnRes.lines) = 3
  /\ fnRes.lines[1].kind = "header"
  /\ fnRes.lines[2].kind = "row" /\ fnRes.lines[3].kind = "row"

\* C25: when the aggregation or the write of the results table fails at the
\* end of a run, done() reports the error, and the step rolls nothing back:
\* every checkpoint artifact and every outline set is as it was.
C25_WriteFailureReportedNoRollback ==
  [][(~doneRan /\ doneRan' /\ table' # AppendResults(table, all_results)) =>
       /\ dialog' = "Error"
       /\ pixelArt' = pixelArt /\ objectArt' = objectArt
       /\ outlineFile' = outlineFile]_vars

\* the write failed at the end of a run that was not cancelled and that had
\* written both artifacts of an ROI and the outline set of its image
C25_Witness ==
  /\ doneRan /\ pc = "returned" /\ ~cancelled
  /\ all_results # <<>>
  /\ RunRows # Aggregate(all_results)
  /\ dialog = "Error"
  /\ \E p \in Pairs :
       /\ outcome[p] = "ok"
       /\ p[1] \in selected /\ p[2] <= Len(roiFile[p[1]])
       /\ pixelArt[BaseName(p[1], p[2])] # None
       /\ objectArt[BaseName(p[1], p[2])] # None
       /\ outlineFile[p[1]] # 0
  /\ extCalls > 0

\* C26: when an image reaches Completed in a run, its outline set holds
\* exactly the outlines the run collected from the ROIs of that image it
\* analysed: the set is written anew by the run and holds no outline of an
\* earlier run.
C26_OutlineSetIsThisRuns ==
  [][(pc = "imageEnd" /\ status'[imgCur] = "Completed") =>
       outlineFile'[imgCur] = all_image_outlines]_vars

\* C27 as stated: a save of an ROI set in which two ROIs have the same name
\* is rejected, so the names of a saved ROI set are unique.
C27_Original ==
  /\ \A i, j \in 1..Len(fnRes.roi_file) :
       fnRes.roi_file[i].name = fnRes.roi_file[j].name => i = j
  /\ \A i, j \in 1..Len(fnRes.roi_db) :
       fnRes.roi_db[i].roi_name = fnRes.roi_db[j].roi_name => i = j

\* C27: ROIs with the same name coexist in the editor and in the saved ROI
\* set: a save is rejected only for a name that is empty, and a save that is
\* not rejected writes the ROIs of the editor as they are, repeated names
\* included.
C27_DuplicateNamesSaved ==
  /\ fnArg.result = "rejected" =>
       \E i \in 1..Len(fnArg.rm) : Strip(fnArg.rm[i].name) = ""
  /\ (fnArg.result = "saved" /\ fnArg.rm # <<>>) => fnRes.roi_file = fnArg.rm

\* a save has written an ROI set with two ROIs of the same name
C27_Witness ==
  /\ fnArg.result = "saved"
  /\ Len(fnRes.roi_file) = 2
  /\ fnRes.roi_file[1].name = fnRes.roi_file[2].name
  /\ Len(fnRes.roi_db) = 2
  /\ fnRes.roi_db[1].roi_name = fnRes.roi_db[2].roi_name

\* C28: a save of an ROI set in which an ROI has an empty or blank name is
\* rejected: it returns failure, it leaves the ROI-set file, the ROI
\* records of the image and the databases as they were, and the editor
\* stays open.
C28_EmptyNameRejected ==
  [][(fnArg'.result # "none"
        /\ \E i \in 1..Len(fnArg'.rm) : Strip(fnArg'.rm[i].name) = "") =>
       /\ fnArg'.result = "rejected"
       /\ fnRes' = fnRes
       /\ fnArg'.open]_vars

\* a save was rejected for a blank name while an ROI set was on file
C28_Witness ==
  /\ fnArg.result = "rejected"
  /\ fnArg.open
  /\ Len(fnArg.rm) = 2
  /\ fnArg.rm[1].name = "a" /\ fnArg.rm[2].name = ""
  /\ fnRes.roi_file = <<[name |-> "a"]>>

\* C29: every outline returned by the analysis is an outline of the crop
\* moved by the origin of the bounding box of the ROI: its origin is the
\* local origin plus (roi_x, roi_y) and its size is unchanged.
C29_OutlinesTranslated ==
  fnRes.done =>
    LET local == SelectSeq(fnArg.particles, Retained) IN
      /\ Len(fnRes.analysis.outlines) = Len(local)
      /\ \A i \in 1..Len(local) :
           /\ fnRes.analysis.outlines[i].x - local[i].x = fnArg.roi_x
           /\ fnRes.analysis.outlines[i].y - local[i].y = fnArg.roi_y
           /\ fnRes.analysis.outlines[i].w = local[i].w
           /\ fnRes.analysis.outlines[i].h = local[i].h

\* an outline at (6,1)-(11,6) of the crop of an ROI whose bounding box
\* starts at (100,200) is returned at (106,201)-(111,206)
C29_Witness ==
  /\ fnRes.done
  /\ fnArg.roi_x = 100 /\ fnArg.roi_y = 200
  /\ fnArg.particles = <<ParticleAt(6, 1, 5, 5, 25)>>
  /\ fnRes.analysis.outlines = <<[x |-> 106, y |-> 201, w |-> 5, h |-> 5]>>

\* C30: a particle below 20 area units or touching the edge of the analysed
\* region adds nothing to count, total area or outlines: count is the number
\* of the other particles, total area the sum of their areas, and the
\* outlines are theirs, one each.
C30_SmallAndEdgeExcluded ==
  fnRes.done =>
    LET ps   == fnArg.particles
        good == { i \in 1..Len(ps) :
                    /\ ps[i].area >= 20
                    /\ ps[i].x > 0 /\ ps[i].y > 0
                    /\ ps[i].x + ps[i].w < RegionSize
                    /\ ps[i].y + ps[i].h < RegionSize }
        at(i) == [x |-> ps[i].x + fnArg.roi_x, y |-> ps[i].y + fnArg.roi_y,
                  w |-> ps[i].w, h |-> ps[i].h]
        areas == [i \in 1..Len(ps) |-> IF i \in good THEN ps[i] ELSE Particle(0, FALSE)]
    IN  /\ fnRes.analysis.count = Cardinality(good)
        /\ fnRes.analysis.total_area = SumArea(areas)
        /\ Len(fnRes.analysis.outlines) = Cardinality(good)
        /\ \A i \in 1..Len(ps) :
             (i \in good) <=> (\E k \in 1..Len(fnRes.analysis.outlines) : fnRes.analysis.outlines[k] = at(i))

\* a raster with a retained particle of exactly 20 area units and a
\* particle on the edge: one object, 20 area units, one outline
C30_Witness ==
  /\ fnRes.done
  /\ fnArg.particles = <<ParticleAt(0, 0, 5, 5, 25), ParticleAt(1, 6, 5, 4, 20)>>
  /\ fnRes.analysis.count = 1
  /\ fnRes.analysis.total_area = 20
  /\ Len(fnRes.analysis.outlines) = 1

\* C31: in every state a file at a _probabilities path holds output of the
\* pixel-stage classifier and a file at an _objects path holds output of the
\* object-stage classifier; the crop is never saved as a checkpoint.
C31_CheckpointIntegrity ==
  \A k \in Paths :
    /\ pixelArt[k] \in {None, "prob"}
    /\ objectArt[k] \in {None, "objects"}

\* C32: when a run that was not cancelled is over (done() has run), every
\* selected image is "Completed" or "Failed", in memory and in the status
\* file, and none is left "Processing".
C32_FinalStatuses ==
  (RunOver /\ ~cancelled) =>
    \A img \in selected :
      /\ status[img] \in {"Completed", "Failed"}
      /\ ledger[img] \in {"Completed", "Failed"}

\* Positions of doInBackground inside an ROI iteration, from the saved crop
\* to the finally clause
InRoi == {"classify", "pixCall", "pixGot", "objCall", "objGot", "analyze", "cleanup"}

\* C33: cancellation is polled at the iteration boundaries.  A task that is
\* at a boundary with the flag set starts no extraction, no classifier call
\* and no analysis any more: it only leaves its loops.  An ROI that is in
\* progress with the flag set is not cut short: it goes on through its
\* stages to its finally clause, and, unless one of them fails, its record
\* is appended.
C33_CancelAtBoundaries ==
  [][ (cancelled /\ cancelled' /\ pc' # "idle") =>
        /\ pc \in {"roi", "image", "imageEnd", "returned"} =>
             /\ pc' \in {pc, "image", "imageEnd", "returned"}
             /\ cropFile' = cropFile
             /\ extCalls' = extCalls
             /\ all_results' = all_results
             /\ outcome' = outcome
        /\ (pc \in InRoi /\ pc' # pc) =>
             /\ pc' \in InRoi \cup {"roi"}
             /\ (pc = "analyze" /\ events' = events) =>
                   Len(all_results') = Len(all_results) + 1
             /\ pc = "cleanup" => roi_counter' = roi_counter + 1 ]_vars

\* C33 witness: the run was cancelled while the first ROI of image 1 was in
\* progress; that ROI was measured and recorded, the second was not started
C33_Witness ==
  /\ cancelled /\ pc = "returned" /\ selected = {1}
  /\ recsAtCancel = <<>>
  /\ Len(all_results) = 1
  /\ outcome[<<1, 1>>] = "ok" /\ outcome[<<1, 2>>] = "none"
  /\ roi_counter = 1

\* C34: a step of the background task sets an image to "Completed" only if
\* every ROI of its ROI set was attempted in this run (its iteration ended
\* in a raw record or in a logged error).
C34_CompletedOnlyIfAllAttempted ==
  [][ \A img \in Images :
        (pc' # "idle" /\ status'[img] = "Completed" /\ status[img] # "Completed") =>
           \A i \in 1..Len(roiFile[img]) : outcome[<<img, i>>] # "none" ]_vars

\* C35: whenever the analysis measures a label raster for an ROI, that
\* raster was classified from a crop of the geometry the ROI has in that
\* run.
C35_RasterOfCurrentGeometry ==
  \A j \in 1..Len(fnRes) : fnRes[j].from = fnRes[j].geom

\* C36: the final statuses are written to the status file by completion
\* handling, in the step that has attempted the aggregation, and not before
\* (the only earlier write is the one of "Processing"); and on every path
\* through completion handling they are written: once the run is over the
\* status file holds the status of every selected image.
C36_FinalStatusesPersisted ==
  [][ /\ (ledger' # ledger /\ pc' # "idle") => (pc = "sync" \/ (~doneRan /\ doneRan'))
      /\ (pc' = "returned" /\ doneRan') =>
            \A img \in selected' : ledger'[img] = status'[img] ]_vars

\* C37: an ROI in which no object passes the filters is not an error: the
\* analysis gives count 0, total area 0 and no outline, the record of the
\* ROI is appended with cell_count 0 and total_cell_area 0, and when a run
\* that was not cancelled is over, every record, these included, has its row
\* in the rows the run wrote, with cell_count 0 if the ROIs of its key held
\* no object.
C37_EmptyRoiRecorded ==
  [](
      /\ (pc = "cleanup" /\ outcome[<<imgCur, roiIdx>>] = "ok") =>
           LET a == analyze_results(result_imp, imgCur, roiIdx) IN
             /\ all_results # <<>>
             /\ a.count = 0 =>
                  /\ a.total_area = 0 /\ a.outlines = 0
                  /\ all_results[Len(all_results)].filename = imgCur
                  /\ all_results[Len(all_results)].roi_name = roiFile[imgCur][roiIdx].name
                  /\ all_results[Len(all_results)].cell_count = 0
                  /\ all_results[Len(all_results)].total_cell_area = 0
      /\ (RunOver /\ ~cancelled) =>
           \A j \in 1..Len(all_results) :
             \E i \in 1..Len(RunRows) :
               /\ RunRows[i].filename = all_results[j].filename
               /\ RunRows[i].roi_name = all_results[j].roi_name
               /\ (\A k \in 1..Len(all_results) :
                     (all_results[k].filename = all_results[j].filename
                        /\ all_results[k].roi_name = all_results[j].roi_name) =>
                       all_results[k].cell_count = 0) => RunRows[i].cell_count = 0
  )

\* C37 witness: a run over image 2, whose ROI holds no object that passes
\* the filters, is over: one record and one row with cell_count 0, no
\* outline set, the image Completed
C37_Witness ==
  /\ RunOver /\ ~cancelled /\ selected = {2}
  /\ outcome[<<2, 1>>] = "ok"
  /\ Len(all_results) = 1
  /\ all_results[1].cell_count = 0 /\ all_results[1].total_cell_area = 0
  /\ Len(RunRows) = 1 /\ RunRows[1].cell_count = 0
  /\ outlineFile[2] = 0
  /\ status[2] = "Completed"

\* C38: while the image loop runs, the progress counter is the number of
\* ROI iterations of this run that were entered and have ended (in a record
\* or in an error), each counted once; it never exceeds the total computed
\* at the start, and the percentage emitted is within 0..100 and not below
\* any percentage emitted before.
C38_ProgressCounter ==
  [](
      pc \in {"image", "roi", "imageEnd", "cleanup", "returned"} \cup InRoi =>
        /\ roi_counter + (IF pc = "cleanup" THEN 1 ELSE 0)
             = Cardinality({p \in Pairs : outcome[p] # "none"})
        /\ roi_counter <= total
        /\ total > 0 =>
             /\ ProgressValue(roi_counter, total) \in 0..100
             /\ \A c \in 0..roi_counter :
                  ProgressValue(c, total) <= ProgressValue(roi_counter, total)
  )

\* C38 witness: a run over both images has returned; one of its three ROI
\* iterations raised, and the counter stands at the total
C38_Witness ==
  /\ pc = "returned" /\ ~cancelled /\ selected = {1, 2}
  /\ total = 3 /\ roi_counter = 3
  /\ outcome[<<1, 1>>] = "failed" /\ outcome[<<1, 2>>] = "ok" /\ outcome[<<2, 1>>] = "ok"
  /\ ProgressValue(roi_counter, total) = 100

\* C39: no step overwrites a file that exists in Images/; a selected file
\* found existing there is recorded as skipped; and the image list of the
\* project never holds a file name twice.
C39_ImportNeverOverwrites ==
  [][ /\ \A f \in FileNames :
           fnArg.disk[f] # NoContent => fnArg'.disk[f] = fnArg.disk[f]
      /\ \A k \in ImportWorkers :
           LET w == fnRes.worker[k] IN
             (w.pc = "loop" /\ w.todo # <<>>
                /\ (fnRes'.worker[k].todo # w.todo \/ fnRes'.worker[k].pc # w.pc)
                /\ ~fnRes'.worker[k].cancelled
                /\ fnArg.disk[Head(w.todo)] # NoContent)
             => fnRes'.worker[k].skipped_files = Append(w.skipped_files, Head(w.todo))
      /\ \A i, j \in 1..Len(fnRes'.images) :
           fnRes'.images[i] = fnRes'.images[j] => i = j ]_vars

====
